---------------------------- MODULE Spec2Model ----------------------------
(***************************************************************************)
(* A model of the word-cloud application: the text pipeline (spam filter,  *)
(* language detection, tokenizers, semantic grouping, auto threshold,      *)
(* tiering), the WordCloud component that drives it, the Big Screen's      *)
(* polling of the entry store and the joined-sessions list in local        *)
(* storage.                                                                *)
(*                                                                         *)
(* Texts are sequences of UTF-16 code units (all characters used are in    *)
(* the BMP), so that case folding, trimming and the regular expressions of *)
(* the source are computed character by character.                         *)
(***************************************************************************)
EXTENDS Integers, Sequences, FiniteSets, Bags, TLC

VARIABLES
    spamText,       \* the argument isSpam is applied to
    spamVerdict,    \* "unset", or what isSpam returned: "spam" (true), "clean" (false)
    autoEntries,    \* the entries given to calculateAutoMinOccurrence, as a bag
    autoPref,       \* options.preferredWordCount
    autoSens,       \* options.spamSensitivity
    autoDone,       \* calculateAutoMinOccurrence has returned
    autoResult,     \* what it returned
    fpRounding,     \* how the sums of doubles in assignTiers round at an exact bound
    tierGroups,     \* a list of groups: given to assignTiers, then as it is returned
    tierOpts,       \* the options of the processWordCloudData call the list is part of
    tierStage,      \* "grouped", then "tiered" (assignTiers done), then "output"
    wcEntries,      \* WordCloud: the entries prop
    wcOptions,      \* WordCloud: the option props
    wcGroups,       \* WordCloud: the groups state
    wcGroupsFrom,   \* the invocation whose setGroups wrote wcGroups (0: none yet)
    wcInvocations,  \* the invocations of the processEntries effect, in order of start
    jiebaInstance,  \* multilingualNLP: 0 for null, else the number of the jiebaInit call it came from
    jiebaInitialized,
    jiebaInitCalls, \* how many times jiebaInit has been called
    dbClock,        \* Postgres: NOW()
    dbOpen,         \* inserts whose transaction has begun and not yet committed
    dbRows,         \* the committed rows of the entries table
    bsEntries,      \* BigScreen: the entries state
    bsLastTimestamp,\* BigScreen: lastTimestampRef.current (0 for null)
    bsLoad,         \* loadSession: its stage, and the rows its query read
    bsPoll,         \* fetchNewEntries: its stage, and the rows its query read
    lsJoinedSessions, \* localStorage joinedSessions, a list of session ids
    ssParticipants, \* the session ids with a participant_<id> item in sessionStorage
    page,           \* "home", "dashboard" or "join"
    joinSessionId,  \* the session of the join page
    viewMode,       \* JoinSession: "setup" or "contributing"
    nickname,       \* JoinSession: whether the nickname field holds a name
    infoModal,      \* JoinSession: whether the info modal is shown
    dashJoined,     \* Dashboard: the joined sessions it lists
    contributing,   \* the sessions the participant started contributing to and has not left since
    pipeEntries,    \* BigScreen: the entries it passes to calculateAutoMinOccurrence and WordCloud
    pipeOpts,       \* the options of the processWordCloudData call (minOccurrence set by the call)
    pipeStage,      \* "start", "threshold" (min occurrence decided), "done" (processWordCloudData returned)
    pipeMinOcc,     \* the min occurrence in force (calculatedMinOcc or the manual setting)
    pipeTokens,     \* the tokens of step 3
    pipeGroups,     \* the groups of step 4
    pipeOutput,     \* what processWordCloudData returned
    nlpText,        \* the text given to processMultilingual
    nlpDetected,    \* what franc answers for it
    nlpToken,       \* the token processMultilingual returned, in a record with its stage
    statsEntries,   \* getProcessingStats: its entries argument
    statsOptions,   \* getProcessingStats: its options argument, a Partial<ProcessorOptions>
    statsReport,    \* what getProcessingStats returned, in a record with its stage
    jsEntries,      \* JoinSession: the entries state
    jsLastTimestamp,\* JoinSession: lastTimestampRef.current (0 for null)
    jsLoad,         \* JoinSession loadSession: "todo", "inflight" or "done"
    jsPollCount,    \* JoinSession: pollCount of the polling effect
    jsPending,      \* JoinSession: the requests whose answer has not been handled yet
    jsIssued        \* how many entry ids the database has issued

spamVars == <<spamText, spamVerdict>>
autoVars == <<autoEntries, autoPref, autoSens, autoDone, autoResult>>
tierVars == <<tierGroups, tierOpts, tierStage>>
cloudVars == <<wcEntries, wcOptions, wcGroups, wcGroupsFrom, wcInvocations,
               jiebaInstance, jiebaInitialized, jiebaInitCalls>>
pollVars == <<dbClock, dbOpen, dbRows, bsEntries, bsLastTimestamp, bsLoad, bsPoll>>
joinedVars == <<lsJoinedSessions, ssParticipants, page, joinSessionId, viewMode,
                nickname, infoModal, dashJoined, contributing>>
pipeVars == <<pipeEntries, pipeOpts, pipeStage, pipeMinOcc, pipeTokens, pipeGroups, pipeOutput>>
nlpVars == <<nlpText, nlpDetected, nlpToken>>
statsVars == <<statsEntries, statsOptions, statsReport>>
jsVars == <<jsEntries, jsLastTimestamp, jsLoad, jsPollCount, jsPending, jsIssued>>

vars == <<spamVars, autoVars, fpRounding, tierVars, cloudVars, pollVars, joinedVars, pipeVars, nlpVars,
         statsVars, jsVars>>

\* what the actions of each specification leave alone
outsideSpam == <<autoVars, fpRounding, tierVars, cloudVars, pollVars, joinedVars, pipeVars, nlpVars,
    statsVars, jsVars>>
outsideAuto == <<spamVars, fpRounding, tierVars, cloudVars, pollVars, joinedVars, pipeVars, nlpVars,
    statsVars, jsVars>>
outsideTier == <<spamVars, autoVars, cloudVars, pollVars, joinedVars, pipeVars, nlpVars,
    statsVars, jsVars>>
outsideCloud == <<spamVars, autoVars, tierVars, pollVars, joinedVars, pipeVars, nlpVars,
    statsVars, jsVars>>
outsidePoll == <<spamVars, autoVars, fpRounding, tierVars, cloudVars, joinedVars, pipeVars, nlpVars,
    statsVars, jsVars>>
outsideJoined == <<spamVars, autoVars, fpRounding, tierVars, cloudVars, pollVars, pipeVars, nlpVars,
    statsVars, jsVars>>
outsideNlp == <<spamVars, autoVars, fpRounding, tierVars, cloudVars, pollVars, joinedVars, pipeVars,
    statsVars, jsVars>>
outsidePipe == <<spamVars, autoVars, tierVars, cloudVars, pollVars, joinedVars, nlpVars,
    statsVars, jsVars>>
outsideStats == <<spamVars, autoVars, fpRounding, tierVars, cloudVars, pollVars, joinedVars,
    pipeVars, nlpVars, jsVars>>
\* the database's clock and rows are the ones of pollVars
outsideJs == <<spamVars, autoVars, fpRounding, tierVars, cloudVars, dbOpen, bsEntries,
    bsLastTimestamp, bsLoad, bsPoll, joinedVars, pipeVars, nlpVars, statsVars>>
\* the jieba instance is the one of cloudVars
outsideScript == <<spamVars, autoVars, fpRounding, tierVars, wcEntries, wcOptions, wcGroups,
    wcGroupsFrom, wcInvocations, pollVars, joinedVars, pipeVars, statsVars, jsVars>>

\* The parts of the state a specification does not use stay at these values.
SpamIdle == spamText = <<>> /\ spamVerdict = "unset"

AutoIdle ==
    /\ autoEntries = EmptyBag
    /\ autoPref = 0
    /\ autoSens = "medium"
    /\ autoDone = FALSE
    /\ autoResult = 0

NoRounding == [above65 |-> FALSE, above90 |-> FALSE]

TierIdle ==
    /\ tierGroups = <<>>
    /\ tierOpts = [displayMode |-> "balanced", minOccurrence |-> 1]
    /\ tierStage = "grouped"

CloudIdle ==
    /\ wcEntries = <<>>
    /\ wcOptions = [displayMode |-> "balanced", showPhrases |-> TRUE, minOccurrence |-> 2,
                    enableSpamFilter |-> TRUE, semanticGrouping |-> TRUE]
    /\ wcGroups = <<>>
    /\ wcGroupsFrom = 0
    /\ wcInvocations = <<>>
    /\ jiebaInstance = 0
    /\ jiebaInitialized = FALSE
    /\ jiebaInitCalls = 0

PollIdle ==
    /\ dbClock = 1
    /\ dbOpen = {}
    /\ dbRows = {}
    /\ bsEntries = <<>>
    /\ bsLastTimestamp = 0
    /\ bsLoad = [stage |-> "todo", rows |-> <<>>]
    /\ bsPoll = [stage |-> "idle", rows |-> <<>>]

JoinedIdle ==
    /\ lsJoinedSessions = <<>>
    /\ ssParticipants = {}
    /\ page = "home"
    /\ joinSessionId = 0
    /\ viewMode = "setup"
    /\ nickname = FALSE
    /\ infoModal = FALSE
    /\ dashJoined = <<>>
    /\ contributing = {}

PipeIdle ==
    /\ pipeEntries = <<>>
    /\ pipeOpts = [displayMode |-> "balanced", showPhrases |-> TRUE, minOccurrence |-> 2,
                   enableSpamFilter |-> TRUE, semanticGrouping |-> TRUE]
    /\ pipeStage = "start"
    /\ pipeMinOcc = 2
    /\ pipeTokens = <<>>
    /\ pipeGroups = <<>>
    /\ pipeOutput = <<>>

NlpIdle ==
    /\ nlpText = <<>>
    /\ nlpDetected = "und"
    /\ nlpToken = [stage |-> "none"]

StatsIdle ==
    /\ statsEntries = <<>>
    /\ statsOptions = [enableSpamFilter |-> "omitted", semanticGrouping |-> "omitted"]
    /\ statsReport = [stage |-> "none"]

JsIdle ==
    /\ jsEntries = <<>>
    /\ jsLastTimestamp = 0
    /\ jsLoad = "todo"
    /\ jsPollCount = 0
    /\ jsPending = {}
    /\ jsIssued = 0

\* every part but the named one at rest
IdleBut(part) ==
    /\ part = "spam" \/ SpamIdle
    /\ part = "auto" \/ AutoIdle
    /\ part \in {"tier", "pipe"} \/ fpRounding = NoRounding
    /\ part = "tier" \/ TierIdle
    /\ part = "cloud" \/ CloudIdle
    /\ part = "poll" \/ PollIdle
    /\ part = "joined" \/ JoinedIdle
    /\ part = "pipe" \/ PipeIdle
    /\ part = "nlp" \/ NlpIdle
    /\ part = "stats" \/ StatsIdle
    /\ part = "js" \/ JsIdle

(***************************************************************************)
(* Characters and strings                                                  *)
(***************************************************************************)

\* JavaScript white space and line terminators (what \s matches and trim removes)
IsWhitespace(c) ==
    c \in {9, 10, 11, 12, 13, 32, 160, 5760, 8232, 8233, 8239, 8287, 12288, 65279}
    \/ (c >= 8192 /\ c <= 8202)

\* what "." does not match
IsLineTerminator(c) == c \in {10, 13, 8232, 8233}

\* [a-z] under the /i flag, [a-zA-Z]
IsLatinLetter(c) == (c >= 97 /\ c <= 122) \/ (c >= 65 /\ c <= 90)

\* [一-鿿]
IsHan(c) == c >= 19968 /\ c <= 40959

\* [一-鿿぀-ゟ゠-ヿ]
IsSpamExemptScript(c) ==
    IsHan(c) \/ (c >= 12352 /\ c <= 12447) \/ (c >= 12448 /\ c <= 12543)

\* Hangul (jamo, compatibility jamo, syllables): Korean, the K of CJK
IsHangul(c) ==
    (c >= 4352 /\ c <= 4607) \/ (c >= 12592 /\ c <= 12687) \/ (c >= 44032 /\ c <= 55215)

\* A CJK character in the sense of the comment on isSpam:
\* "Allow ALL CJK characters (Chinese, Japanese, Korean)"
IsCJKChar(c) == IsSpamExemptScript(c) \/ IsHangul(c)

ToLowerChar(c) == IF c >= 65 /\ c <= 90 THEN c + 32 ELSE c

ToLowerCase(s) == [i \in DOMAIN s |-> ToLowerChar(s[i])]

RECURSIVE TrimStart(_)
TrimStart(s) ==
    IF s = <<>> THEN s
    ELSE IF IsWhitespace(Head(s)) THEN TrimStart(Tail(s)) ELSE s

RECURSIVE TrimEnd(_)
TrimEnd(s) ==
    IF s = <<>> THEN s
    ELSE IF IsWhitespace(s[Len(s)]) THEN TrimEnd(SubSeq(s, 1, Len(s) - 1)) ELSE s

Trim(s) == TrimEnd(TrimStart(s))

\* String.prototype.includes
Includes(s, sub) ==
    \E i \in 0..(Len(s) - Len(sub)) :
        \A j \in 1..Len(sub) : s[i + j] = sub[j]

\* s holds n consecutive equal characters that "." matches
HasRun(s, n) ==
    \E i \in 1..(Len(s) - n + 1) :
        /\ ~IsLineTerminator(s[i])
        /\ \A j \in 1..(n - 1) : s[i + j] = s[i]

\* /^([a-z]{unit})\1{reps - 1,}$/i : the whole of s is a unit of `unit` letters
\* written `reps` or more times
IsRepeatedUnit(s, unit, reps) ==
    /\ Len(s) % unit = 0
    /\ Len(s) >= unit * reps
    /\ \A i \in 1..Len(s) : IsLatinLetter(s[i])
    /\ \A i \in (unit + 1)..Len(s) : ToLowerChar(s[i]) = ToLowerChar(s[i - unit])

(***************************************************************************)
(* wordCloudProcessor.ts: isSpam                                           *)
(***************************************************************************)

obviousKeyboardMashing ==
    { <<113, 119, 101, 114, 116, 121, 117, 105, 111, 112>>,  \* qwertyuiop
      <<97, 115, 100, 102, 103, 104, 106, 107, 108>>,        \* asdfghjkl
      <<122, 120, 99, 118, 98, 110, 109>>,                   \* zxcvbnm
      <<113, 119, 101, 114, 116, 121>>,                      \* qwerty
      <<97, 115, 100, 102, 103, 104>>,                       \* asdfgh
      <<122, 120, 99, 118, 98, 110>>,                        \* zxcvbn
      <<112, 111, 105, 117, 121, 116, 114, 101, 119, 113>>,  \* poiuytrewq
      <<108, 107, 106, 104, 103, 102, 100, 115, 97>>,        \* lkjhgfdsa
      <<109, 110, 98, 118, 99, 120, 122>> }                  \* mnbvcxz

isSpam(text) ==
    LET cleaned == ToLowerCase(Trim(text)) IN
    IF Len(Trim(text)) = 0 THEN TRUE
    \* any character of the exempt scripts: never spam
    ELSE IF \E i \in DOMAIN cleaned : IsSpamExemptScript(cleaned[i]) THEN FALSE
    \* /(.)\1{4,}/ : one character and four or more copies of it
    ELSE IF HasRun(cleaned, 5) THEN TRUE
    \* /^([a-z]{2})\1{3,}$/i
    ELSE IF IsRepeatedUnit(cleaned, 2, 4) THEN TRUE
    \* /^([a-z]{2,3})\1{4,}$/i
    ELSE IF IsRepeatedUnit(cleaned, 2, 5) \/ IsRepeatedUnit(cleaned, 3, 5) THEN TRUE
    ELSE IF \E seq \in obviousKeyboardMashing : Includes(cleaned, seq) THEN TRUE
    ELSE IF /\ Len(cleaned) > 30
            /\ ~\E i \in DOMAIN cleaned : IsWhitespace(cleaned[i]) \/ IsHan(cleaned[i])
         THEN TRUE
    ELSE FALSE

(***************************************************************************)
(* textNormalization: normalizeText (the keep-all-words build)             *)
(***************************************************************************)

\* [.,!?;:。,!?;:""''「」『』【】()（）]
IsNormalizedAwayPunctuation(c) ==
    c \in {46, 44, 33, 63, 59, 58, 12290, 34, 39,
           12300, 12301, 12302, 12303, 12304, 12305, 40, 41, 65288, 65289}

\* replace(/\s+/g, " ")
RECURSIVE CollapseWhitespace(_)
CollapseWhitespace(s) ==
    IF s = <<>> THEN s
    ELSE IF IsWhitespace(Head(s))
         THEN <<32>> \o CollapseWhitespace(TrimStart(s))
         ELSE <<Head(s)>> \o CollapseWhitespace(Tail(s))

normalizeText(text) ==
    IF text = <<>> THEN <<>>
    ELSE LET lowered == ToLowerCase(Trim(text))
             spaced == [i \in DOMAIN lowered |->
                          IF IsNormalizedAwayPunctuation(lowered[i]) THEN 32 ELSE lowered[i]]
             normalized == Trim(CollapseWhitespace(spaced))
         IN  IF normalized # <<>> THEN normalized ELSE lowered

\* An entry as handleSubmitWord inserts it: the trimmed text and its normalizeText
SubmittedEntry(text) == [text |-> Trim(text), normalized_text |-> normalizeText(Trim(text))]

\* entry.normalized_text || entry.text.toLowerCase()
EntryKey(entry) ==
    IF entry.normalized_text # <<>> THEN entry.normalized_text ELSE ToLowerCase(entry.text)

(***************************************************************************)
(* autoMinOccurrence.ts                                                    *)
(* The entry list is a bag of entries: every function below counts entries *)
(* and is indifferent to their order.                                      *)
(***************************************************************************)

Max(a, b) == IF a >= b THEN a ELSE b
Min(a, b) == IF a <= b THEN a ELSE b

\* Math.ceil(num / den), num >= 0, den > 0
CeilDiv(num, den) == (num + den - 1) \div den

RECURSIVE SumCopies(_, _)
SumCopies(bag, elems) ==
    IF elems = {} THEN 0
    ELSE LET e == CHOOSE x \in elems : TRUE
         IN  bag[e] + SumCopies(bag, elems \ {e})

\* the numbers of a bag of numbers, largest first
RECURSIVE SortedDescending(_)
SortedDescending(numbers) ==
    IF numbers = EmptyBag THEN <<>>
    ELSE LET top == CHOOSE x \in DOMAIN numbers : \A y \in DOMAIN numbers : y <= x
         IN  <<top>> \o SortedDescending(numbers (-) SetToBag({top}))

getFrequencyDistribution(entries) ==
    LET keys == { EntryKey(e) : e \in DOMAIN entries }
        countOf(k) == SumCopies(entries, { e \in DOMAIN entries : EntryKey(e) = k })
        counts == { countOf(k) : k \in keys }
        asBag == [c \in counts |-> Cardinality({ k \in keys : countOf(k) = c })]
    IN  SortedDescending(asBag)

\* twice the median (the median of an even number of values may end in .5)
calculateMedianTimes2(values) ==
    LET n == Len(values)
        \* values is sorted descending; sorted ascending it is read from the end
        asc(i) == values[n + 1 - i]
        mid == n \div 2
    IN  IF n = 0 THEN 0
        ELSE IF n % 2 = 0 THEN asc(mid) + asc(mid + 1)
        ELSE 2 * asc(mid + 1)

IsVowel(c) == ToLowerChar(c) \in {97, 101, 105, 111, 117}

isLikelySpam(text) ==
    LET lower == Trim(ToLowerCase(text)) IN
    \/ Len(lower) < 2 /\ ~\E i \in DOMAIN lower : IsHan(lower[i])
    \/ HasRun(lower, 4)
    \/ IsRepeatedUnit(lower, 1, 3) \/ IsRepeatedUnit(lower, 2, 3)
    \/ /\ Len(lower) >= 3
       /\ \A i \in DOMAIN lower : IsLatinLetter(lower[i])
       /\ ~\E i \in DOMAIN lower : IsVowel(lower[i])

\* the numerator of estimateSpamRatio; its denominator is max(entries.length, 1)
spamCount(entries) == SumCopies(entries, { e \in DOMAIN entries : isLikelySpam(e.text) })

countWordsAboveThreshold(frequencies, threshold) ==
    Cardinality({ i \in DOMAIN frequencies : frequencies[i] >= threshold })

\* CASE 2: Math.max(2, Math.min(Math.ceil(maxFrequency * 0.15), 10))
DominantThresholdUnclamped(maxFrequency) == Max(2, CeilDiv(15 * maxFrequency, 100))
DominantThreshold(maxFrequency) == Max(2, Min(CeilDiv(15 * maxFrequency, 100), 10))

\* ADJUSTMENT 1: scale with dataset size
SizeAdjusted(threshold, totalEntries) ==
    IF totalEntries > 500 THEN threshold + 2
    ELSE IF totalEntries > 200 THEN threshold + 1
    ELSE IF totalEntries < 50 THEN Max(1, threshold - 1)
    ELSE threshold

\* ADJUSTMENT 2: spamAdjustments[spamSensitivity]; spamRatio is spam / total
spamAdjustment(spamSensitivity, spam, total) ==
    CASE spamSensitivity = "low" -> 0
      [] spamSensitivity = "medium" -> IF 100 * spam > 15 * total THEN 1 ELSE 0
      [] spamSensitivity = "high" ->
            IF 10 * spam > total THEN 2
            ELSE IF 100 * spam > 25 * total THEN 3 ELSE 0

\* ADJUSTMENT 3: iterative refinement to hit the target word count
Refined(threshold, frequencies, preferredWordCount) ==
    IF 10 * countWordsAboveThreshold(frequencies, threshold) > 15 * preferredWordCount
    THEN IF 10 * countWordsAboveThreshold(frequencies, threshold + 1) > 18 * preferredWordCount
         THEN threshold + 2
         ELSE threshold + 1
    ELSE IF /\ 10 * countWordsAboveThreshold(frequencies, threshold) < 5 * preferredWordCount
            /\ threshold > 1
         THEN Max(1, threshold - 1)
    ELSE threshold

\* the final bounds check without the final safety net
FinalBoundsOnly(threshold, spam, total) == Max(1, Min(threshold, 10))

\* Final bounds check, and the final safety net against spam
FinalBounds(threshold, spam, total) ==
    LET bounded == Max(1, Min(threshold, 10))
    IN  IF bounded = 1 /\ 10 * spam > 2 * total THEN 2 ELSE bounded

\* neither early return nor CASE 1 nor CASE 2 returns: the base threshold and
\* the three adjustments are computed
ReachesAdjustment(entries) ==
    LET totalEntries == BagCardinality(entries)
        frequencies == getFrequencyDistribution(entries)
    IN  /\ totalEntries >= 10
        /\ ~(10 * Len(frequencies) >= 8 * totalEntries
               /\ 100 * spamCount(entries) < 15 * totalEntries)
        /\ ~(10 * frequencies[1] > 4 * totalEntries)

\* CASE 3 and CASE 4, the adjustments and the final bounds, where bonus is the
\* value read from spamAdjustments
AdjustedThreshold(entries, preferredWordCount, bonus) ==
    LET totalEntries == BagCardinality(entries)
        frequencies == getFrequencyDistribution(entries)
        uniqueWords == Len(frequencies)
        maxFrequency == frequencies[1]
        ceilMedian == CeilDiv(calculateMedianTimes2(frequencies), 2)
        base == IF 10 * uniqueWords < 3 * totalEntries
                THEN IF 100 * maxFrequency > 25 * totalEntries
                     THEN CeilDiv(20 * maxFrequency, 100)
                     ELSE Max(2, ceilMedian)
                ELSE ceilMedian
        sized == SizeAdjusted(base, totalEntries)
        spammed == sized + bonus
        refined == Refined(spammed, frequencies, preferredWordCount)
    IN  FinalBounds(refined, spamCount(entries), totalEntries)

calculateAutoMinOccurrence(entries, preferredWordCount, spamSensitivity) ==
    LET totalEntries == BagCardinality(entries) IN
    IF totalEntries = 0 THEN 1
    ELSE IF totalEntries < 10 THEN 1
    ELSE
    LET frequencies == getFrequencyDistribution(entries)
        uniqueWords == Len(frequencies)
        maxFrequency == frequencies[1]
        spam == spamCount(entries)
        \* diversity = uniqueWords / totalEntries, dominanceRatio = maxFrequency / totalEntries
        baseline == IF 10 * spam > 2 * totalEntries THEN 2 ELSE 1
    IN  IF 10 * uniqueWords >= 8 * totalEntries /\ 100 * spam < 15 * totalEntries
        THEN Max(baseline, 1)
        ELSE IF 10 * maxFrequency > 4 * totalEntries
        THEN DominantThreshold(maxFrequency)
        ELSE AdjustedThreshold(entries, preferredWordCount,
                               spamAdjustment(spamSensitivity, spam, totalEntries))

(***************************************************************************)
(* multilingualNLP: language detection and per-language processing.        *)
(* A token is [original, normalized, keyPhrase, language]; type, pos and   *)
(* semanticWeight are never read by the grouping and are left out.         *)
(***************************************************************************)

Last(s) == s[Len(s)]

\* index of the first whitespace character of s, 0 when there is none
FirstWhitespace(s) ==
    IF \E i \in DOMAIN s : IsWhitespace(s[i])
    THEN CHOOSE i \in DOMAIN s : IsWhitespace(s[i]) /\ \A j \in 1..(i - 1) : ~IsWhitespace(s[j])
    ELSE 0

\* s.split(/\s+/)
RECURSIVE SplitWhitespace(_)
SplitWhitespace(s) ==
    LET i == FirstWhitespace(s)
    IN  IF i = 0 THEN <<s>>
        ELSE <<SubSeq(s, 1, i - 1)>> \o SplitWhitespace(TrimStart(SubSeq(s, i, Len(s))))

\* franc(text, {only: [...]}): "und" for a text shorter than franc's minimum
\* length of 10 characters, otherwise one of the allowed codes or "und"
FrancAnswers(text) ==
    IF Len(text) < 10 THEN {"und"} ELSE {"und", "cmn", "eng", "zsm", "zlm"}

LANG_CODES(detected) ==
    CASE detected = "cmn" -> "zh"
      [] detected = "eng" -> "en"
      [] detected \in {"zsm", "zlm"} -> "ms"
      [] OTHER -> "none"

malayKeywords ==
    { <<115, 97, 121, 97>>, <<97, 107, 117>>, <<121, 97, 110, 103>>,
      <<97, 100, 97, 108, 97, 104>>, <<107, 101>>, <<100, 97, 114, 105>> }

\* detected is what franc answered for text
detectLanguage(text, detected) ==
    LET hasChinese == \E i \in DOMAIN text : IsHan(text[i])
        hasLatin == \E i \in DOMAIN text : IsLatinLetter(text[i])
        hasMalayKeywords == \E kw \in malayKeywords : Includes(ToLowerCase(text), kw)
    IN  IF Len(Trim(text)) = 0 THEN "en"
        ELSE IF LANG_CODES(detected) # "none"
        THEN IF hasChinese /\ hasLatin THEN "mixed" ELSE LANG_CODES(detected)
        ELSE IF hasChinese /\ hasLatin THEN "mixed"
        ELSE IF hasChinese THEN "zh"
        ELSE IF hasMalayKeywords THEN "ms"
        ELSE "en"

\* the words jieba's dictionary knows among the sample texts
JiebaDictionary == { <<40481, 32905>> }

StartsWith(s, prefix) ==
    Len(prefix) <= Len(s) /\ \A j \in 1..Len(prefix) : s[j] = prefix[j]

\* jiebaInstance.cut(text, false): a dictionary word where one starts (the
\* longest), any other Han character on its own, a run of other non-blank
\* characters as one segment, a blank on its own
RECURSIVE JiebaCut(_)
JiebaCut(s) ==
    IF s = <<>> THEN <<>>
    ELSE LET words == { w \in JiebaDictionary : StartsWith(s, w) }
             other(c) == ~IsHan(c) /\ ~IsWhitespace(c)
             runLen == IF \E i \in DOMAIN s : ~other(s[i])
                       THEN (CHOOSE i \in DOMAIN s : ~other(s[i]) /\ \A j \in 1..(i - 1) : other(s[j])) - 1
                       ELSE Len(s)
             n == IF words # {}
                  THEN Len(CHOOSE w \in words : \A v \in words : Len(v) <= Len(w))
                  ELSE IF other(s[1]) THEN runLen ELSE 1
         IN  <<SubSeq(s, 1, n)>> \o JiebaCut(SubSeq(s, n + 1, Len(s)))

RECURSIVE Join(_)
Join(segments) == IF segments = <<>> THEN <<>> ELSE Head(segments) \o Join(Tail(segments))

\* processChinese as it would be with the segments joined by spaces
\* (filtered.join(' '))
processChineseSpaced(text, instance) ==
    LET fallback == [original |-> text, normalized |-> text, keyPhrase |-> text,
                     type |-> "word", language |-> "zh"]
        filtered == SelectSeq(JiebaCut(text), LAMBDA seg : Len(Trim(seg)) > 0)
        first == CHOOSE i \in DOMAIN filtered :
                    /\ \A j \in DOMAIN filtered : Len(filtered[j]) <= Len(filtered[i])
                    /\ \A j \in 1..(i - 1) : Len(filtered[j]) < Len(filtered[i])
        joined[i \in 1..Len(filtered)] ==
            IF i = 1 THEN filtered[1] ELSE joined[i - 1] \o <<32>> \o filtered[i]
    IN  IF instance = 0 THEN fallback
        ELSE IF filtered = <<>> THEN fallback
        ELSE [original |-> text, normalized |-> joined[Len(filtered)],
              keyPhrase |-> filtered[first],
              type |-> IF Len(filtered) > 1 THEN "phrase" ELSE "word", language |-> "zh"]

\* processChinese as it would be without the check of jiebaInstance: the
\* text is segmented whether or not the backend is there
processChineseUnchecked(text, instance) ==
    LET filtered == SelectSeq(JiebaCut(text), LAMBDA seg : Len(Trim(seg)) > 0)
        first == CHOOSE i \in DOMAIN filtered :
                    /\ \A j \in DOMAIN filtered : Len(filtered[j]) <= Len(filtered[i])
                    /\ \A j \in 1..(i - 1) : Len(filtered[j]) < Len(filtered[i])
    IN  IF filtered = <<>>
        THEN [original |-> text, normalized |-> text, keyPhrase |-> text,
              type |-> "word", language |-> "zh"]
        ELSE [original |-> text, normalized |-> Join(filtered),
              keyPhrase |-> filtered[first],
              type |-> IF Len(filtered) > 1 THEN "phrase" ELSE "word", language |-> "zh"]

\* instance is the value of jiebaInstance when the call resumes after
\* initJieba, 0 for none; a cut that throws ends in the catch, which returns
\* the token of the branch for no instance.  The type of a token is kept for
\* this strategy only: in processEnglish it hangs on the tagging of compromise,
\* and no stage reads it.
processChinese(text, instance) ==
    LET fallback == [original |-> text, normalized |-> text, keyPhrase |-> text,
                     type |-> "word", language |-> "zh"]
        filtered == SelectSeq(JiebaCut(text), LAMBDA seg : Len(Trim(seg)) > 0)
        \* the first of the longest segments: what a stable sort by length puts first
        first == CHOOSE i \in DOMAIN filtered :
                    /\ \A j \in DOMAIN filtered : Len(filtered[j]) <= Len(filtered[i])
                    /\ \A j \in 1..(i - 1) : Len(filtered[j]) < Len(filtered[i])
    IN  IF instance = 0 THEN fallback
        ELSE IF filtered = <<>> THEN fallback
        ELSE [original |-> text, normalized |-> Join(filtered),
              keyPhrase |-> filtered[first],
              type |-> IF Len(filtered) > 1 THEN "phrase" ELSE "word", language |-> "zh"]

pronouns ==
    { <<105>>, <<109, 101>>, <<121, 111, 117>>, <<119, 101>>, <<117, 115>>,
      <<116, 104, 101, 121>>, <<116, 104, 101, 109>>, <<104, 101>>, <<104, 105, 109>>,
      <<115, 104, 101>>, <<104, 101, 114>>, <<105, 116>>, <<121, 97>>, <<117>> }

questionStarters ==
    { <<119, 104, 97, 116>>, <<119, 104, 97, 116, 115>>, <<119, 104, 121>>, <<104, 111, 119>>,
      <<119, 104, 111>>, <<119, 104, 111, 115>>, <<119, 104, 101, 114, 101>>,
      <<119, 104, 101, 114, 101, 115>>, <<119, 104, 101, 110>>, <<119, 104, 101, 110, 115>> }

\* compromise's tagger, on the words of the sample texts: its pronouns are
\* Pronoun, the verbs like, love, eat are Verb, any other word is a Noun
CompromisePronouns == pronouns \ { <<121, 97>>, <<117>> }
CompromiseVerbs == { <<108, 105, 107, 101>>, <<108, 111, 118, 101>>, <<101, 97, 116>> }

IsTermChar(c) == IsLatinLetter(c) \/ (c >= 48 /\ c <= 57) \/ c > 127

\* term.text: the word without the punctuation before and after it
RECURSIVE TermText(_)
TermText(word) ==
    IF word = <<>> THEN word
    ELSE IF ~IsTermChar(Head(word)) THEN TermText(Tail(word))
    ELSE IF ~IsTermChar(Last(word)) THEN TermText(SubSeq(word, 1, Len(word) - 1))
    ELSE word

\* the terms of doc.nouns() that the forEach keeps, lowercased, in order
nounCandidates(text) ==
    LET terms == [i \in DOMAIN SplitWhitespace(Trim(text)) |->
                     ToLowerCase(TermText(SplitWhitespace(Trim(text))[i]))]
    IN  SelectSeq(terms, LAMBDA t :
            t # <<>> /\ t \notin CompromisePronouns /\ t \notin CompromiseVerbs)

\* replace(/[^a-z]/g, "")
LettersOnly(s) == SelectSeq(s, LAMBDA c : c >= 97 /\ c <= 122)

processEnglish(text) ==
    LET normalized == Trim(ToLowerCase(text))
        words == IF Len(normalized) > 0 THEN SplitWhitespace(normalized) ELSE <<>>
        candidates == nounCandidates(text)
        initial == IF Len(candidates) > 0 THEN Last(candidates)
                   ELSE IF words # <<>> /\ Last(words) # <<>> THEN Last(words)
                   ELSE normalized
        asked == IF /\ Len(words) > 0
                    /\ \/ LettersOnly(words[1]) \in questionStarters
                       \/ Last(normalized) = 63
                 THEN normalized ELSE initial
        others == SelectSeq(candidates, LAMBDA c : c \notin pronouns)
        keyPhrase == IF asked \in pronouns
                     THEN IF others # <<>> THEN Last(others)
                          ELSE IF Len(words) > 1 THEN normalized
                          ELSE asked
                     ELSE asked
    IN  [original |-> text, normalized |-> normalized, keyPhrase |-> keyPhrase, language |-> "en"]

malayCompounds ==
    { <<97, 121, 97, 109, 32, 103, 111, 114, 101, 110, 103>>,
      <<110, 97, 115, 105, 32, 108, 101, 109, 97, 107>>,
      <<114, 111, 116, 105, 32, 99, 97, 110, 97, 105>>,
      <<116, 101, 104, 32, 116, 97, 114, 105, 107>>,
      <<109, 97, 107, 97, 110, 32, 109, 97, 108, 97, 109>> }

processMalay(text) ==
    LET words == SplitWhitespace(ToLowerCase(text))
        normalized == ToLowerCase(text)
        isCompound == \E c \in malayCompounds : Includes(normalized, c)
    IN  [original |-> text, normalized |-> normalized,
         keyPhrase |-> IF isCompound THEN normalized ELSE Last(words),
         language |-> "ms"]

processMixed(text, instance) ==
    LET zhResult == processChinese(text, instance)
        enResult == processEnglish(text)
    IN  IF Len(zhResult.normalized) > Len(enResult.normalized) /\ zhResult.normalized # text
        THEN [zhResult EXCEPT !.language = "mixed"]
        ELSE [enResult EXCEPT !.language = "mixed"]

\* processChinese and processMixed await initJieba before anything else
AwaitsInitJieba(text, detected) == detectLanguage(Trim(text), detected) \in {"zh", "mixed"}

processMultilingual(text, detected, instance) ==
    LET trimmedText == Trim(text)
        language == detectLanguage(trimmedText, detected)
    IN  IF Len(trimmedText) = 0
        THEN [original |-> text, normalized |-> <<>>, keyPhrase |-> <<>>, language |-> "en"]
        ELSE CASE language = "zh" -> processChinese(trimmedText, instance)
               [] language = "en" -> processEnglish(trimmedText)
               [] language = "ms" -> processMalay(trimmedText)
               [] language = "mixed" -> processMixed(trimmedText, instance)

(***************************************************************************)
(* semanticGrouping.  A group is [canonical, displayText, keyPhrase,       *)
(* variants, totalCount, tier, languages]; lists and Maps are sequences in *)
(* insertion order.  Colors play no part in counts, tiers or order and are *)
(* left out.                                                               *)
(***************************************************************************)

\* Array.prototype.sort with comparator Before, which is stable
StableSort(s, Before(_, _)) ==
    LET \* where s[i] goes: after what sorts before it, and after its equals to the left
        rank == [i \in DOMAIN s |->
                    1 + Cardinality({ j \in DOMAIN s : Before(s[j], s[i]) })
                      + Cardinality({ j \in 1..(i - 1) : ~Before(s[j], s[i]) /\ ~Before(s[i], s[j]) })]
    IN  [p \in DOMAIN s |-> s[CHOOSE i \in DOMAIN s : rank[i] = p]]

RECURSIVE SumTotalCount(_)
SumTotalCount(groups) ==
    IF groups = <<>> THEN 0 ELSE Head(groups).totalCount + SumTotalCount(Tail(groups))

buildCountMap(entries) ==
    [k \in { EntryKey(entries[i]) : i \in DOMAIN entries } |->
        Cardinality({ i \in DOMAIN entries : EntryKey(entries[i]) = k })]

\* countMap.get(key) || 1
CountOrOne(countMap, key) == IF key \in DOMAIN countMap THEN countMap[key] ELSE 1

\* index of the first element of s satisfying Test, 0 when there is none
IndexOf(s, Test(_)) ==
    IF \E i \in DOMAIN s : Test(s[i])
    THEN CHOOSE i \in DOMAIN s : Test(s[i]) /\ \A j \in 1..(i - 1) : ~Test(s[j])
    ELSE 0

\* clusterByKeyPhrase as it would be with one group per key phrase and language
ClusterTokenPerLanguage(groups, token, countMap) ==
    LET groupKey == ToLowerCase(token.keyPhrase)
        normalizedKey == ToLowerCase(token.normalized)
        count == CountOrOne(countMap, normalizedKey)
        found == IndexOf(groups, LAMBDA g : g.canonical = groupKey /\ token.language \in g.languages)
        withGroup == IF found # 0 THEN groups
                     ELSE Append(groups, [canonical |-> groupKey, displayText |-> token.keyPhrase,
                                          keyPhrase |-> token.keyPhrase, variants |-> <<>>,
                                          totalCount |-> 0, tier |-> "C", languages |-> {}])
        at == IF found # 0 THEN found ELSE Len(withGroup)
        group == withGroup[at]
        existingVariant == IndexOf(group.variants, LAMBDA v : v.normalized = normalizedKey)
        variants == IF existingVariant # 0
                    THEN [group.variants EXCEPT ![existingVariant].count = @ + count]
                    ELSE Append(group.variants, [text |-> token.original, normalized |-> normalizedKey,
                                                 count |-> count, language |-> token.language])
    IN  [withGroup EXCEPT ![at] = [group EXCEPT !.variants = variants,
                                                !.totalCount = @ + count,
                                                !.languages = @ \cup {token.language}]]

\* clusterByKeyPhrase as it would be without the search for an existing variant
ClusterTokenAlwaysPush(groups, token, countMap) ==
    LET groupKey == ToLowerCase(token.keyPhrase)
        normalizedKey == ToLowerCase(token.normalized)
        count == CountOrOne(countMap, normalizedKey)
        found == IndexOf(groups, LAMBDA g : g.canonical = groupKey)
        withGroup == IF found # 0 THEN groups
                     ELSE Append(groups, [canonical |-> groupKey, displayText |-> token.keyPhrase,
                                          keyPhrase |-> token.keyPhrase, variants |-> <<>>,
                                          totalCount |-> 0, tier |-> "C", languages |-> {}])
        at == IF found # 0 THEN found ELSE Len(withGroup)
        group == withGroup[at]
        variants == Append(group.variants, [text |-> token.original, normalized |-> normalizedKey,
                                            count |-> count, language |-> token.language])
    IN  [withGroup EXCEPT ![at] = [group EXCEPT !.variants = variants,
                                                !.totalCount = @ + count,
                                                !.languages = @ \cup {token.language}]]

\* the body of tokens.forEach in clusterByKeyPhrase
ClusterToken(groups, token, countMap) ==
    LET groupKey == ToLowerCase(token.keyPhrase)
        normalizedKey == ToLowerCase(token.normalized)
        count == CountOrOne(countMap, normalizedKey)
        found == IndexOf(groups, LAMBDA g : g.canonical = groupKey)
        withGroup == IF found # 0 THEN groups
                     ELSE Append(groups, [canonical |-> groupKey, displayText |-> token.keyPhrase,
                                          keyPhrase |-> token.keyPhrase, variants |-> <<>>,
                                          totalCount |-> 0, tier |-> "C", languages |-> {}])
        at == IF found # 0 THEN found ELSE Len(withGroup)
        group == withGroup[at]
        existingVariant == IndexOf(group.variants, LAMBDA v : v.normalized = normalizedKey)
        variants == IF existingVariant # 0
                    THEN [group.variants EXCEPT ![existingVariant].count = @ + count]
                    ELSE Append(group.variants, [text |-> token.original, normalized |-> normalizedKey,
                                                 count |-> count, language |-> token.language])
    IN  [withGroup EXCEPT ![at] = [group EXCEPT !.variants = variants,
                                                !.totalCount = @ + count,
                                                !.languages = @ \cup {token.language}]]

RECURSIVE ClusterFrom(_, _, _)
ClusterFrom(groups, tokens, countMap) ==
    IF tokens = <<>> THEN groups
    ELSE ClusterFrom(ClusterToken(groups, Head(tokens), countMap), Tail(tokens), countMap)

clusterByKeyPhrase(tokens, countMap) == ClusterFrom(<<>>, tokens, countMap)

\* chooseBestDisplayText as it would be if it took the most frequent variant
\* whenever that is not the key phrase
chooseTopVariantText(group) ==
    LET sorted == StableSort(group.variants, LAMBDA a, b :
                      \/ a.count > b.count
                      \/ a.count = b.count /\ Len(a.text) > Len(b.text))
    IN  IF Len(group.variants) = 0 THEN group.keyPhrase
        ELSE IF ToLowerCase(sorted[1].text) = ToLowerCase(group.keyPhrase) THEN group.keyPhrase
        ELSE sorted[1].text

chooseBestDisplayText(group) ==
    LET sorted == StableSort(group.variants, LAMBDA a, b :
                      \/ a.count > b.count
                      \/ a.count = b.count /\ Len(a.text) > Len(b.text))
    IN  IF Len(group.variants) = 0 THEN group.keyPhrase
        ELSE IF ToLowerCase(sorted[1].text) = ToLowerCase(group.keyPhrase) THEN group.keyPhrase
        ELSE IF Len(sorted) > 1 /\ sorted[1].count > sorted[2].count * 2 THEN sorted[1].text
        ELSE group.keyPhrase

\* calculateSemanticScore is log(totalCount + 1) * sqrt(variants) * (1.2 or 1.0).
\* assignTiers re-sorts by totalCount with a stable sort, so the order by score
\* shows only between groups of equal totalCount, where it is the order of
\* variants * bonus^2; 25 * that is the integer below.
ScoreWeight(group) ==
    Len(group.variants) * (IF Cardinality(group.languages) > 1 THEN 36 ELSE 25)

HigherSemanticScore(a, b) ==
    \/ a.totalCount > b.totalCount
    \/ a.totalCount = b.totalCount /\ ScoreWeight(a) > ScoreWeight(b)

\* the tier of the group at index (from 0) of the sorted list
TierAtUncapped(index, within65, within90) ==
    IF within65 THEN "S"
    ELSE IF index < 20 /\ within90 THEN "A"
    ELSE IF index < 50 THEN "B"
    ELSE "C"

TierAt(index, within65, within90) ==
    IF index < 5 /\ within65 THEN "S"
    ELSE IF index < 20 /\ within90 THEN "A"
    ELSE IF index < 50 THEN "B"
    ELSE "C"

\* cumulativePercent is a sum of doubles: where the exact cumulative share is
\* exactly 65 or 90 the sum computed may be that number or just above it (counts
\* 25, 2, 2, 1 give 90.00000000000001 at the third group).  rounding says, for
\* each bound, whether the computed sum lands above it in that case.
Roundings == [above65 : BOOLEAN, above90 : BOOLEAN]

\* assignTiers as it would be without its sort by totalCount
assignTiersInGivenOrder(groups, rounding) ==
    LET totalCount == SumTotalCount(groups)
        cumulative[i \in 0..Len(groups)] ==
            IF i = 0 THEN 0 ELSE cumulative[i - 1] + groups[i].totalCount
        within(i, bound, above) ==
            \/ 100 * cumulative[i] < bound * totalCount
            \/ 100 * cumulative[i] = bound * totalCount /\ ~above
    IN  [i \in DOMAIN groups |->
            [groups[i] EXCEPT !.tier = TierAt(i - 1, within(i, 65, rounding.above65),
                                                     within(i, 90, rounding.above90))]]

assignTiers(groups, rounding) ==
    LET sorted == StableSort(groups, LAMBDA a, b : a.totalCount > b.totalCount)
        totalCount == SumTotalCount(sorted)
        cumulative[i \in 0..Len(sorted)] ==
            IF i = 0 THEN 0 ELSE cumulative[i - 1] + sorted[i].totalCount
        within(i, bound, above) ==
            \/ 100 * cumulative[i] < bound * totalCount
            \/ 100 * cumulative[i] = bound * totalCount /\ ~above
    IN  [i \in DOMAIN sorted |->
            [sorted[i] EXCEPT !.tier = TierAt(i - 1, within(i, 65, rounding.above65),
                                                     within(i, 90, rounding.above90))]]

groupSemantically(tokens, entries, rounding) ==
    LET clustered == clusterByKeyPhrase(tokens, buildCountMap(entries))
        displayed == [i \in DOMAIN clustered |->
                         [clustered[i] EXCEPT !.displayText = chooseBestDisplayText(clustered[i])]]
    IN  IF Len(tokens) = 0 THEN <<>>
        ELSE assignTiers(StableSort(displayed, HigherSemanticScore), rounding)

\* the body of tokens.forEach in createIndividualGroups
IndividualToken(groups, token, countMap) ==
    LET key == ToLowerCase(token.normalized)
    IN  Append(groups, [canonical |-> token.keyPhrase, displayText |-> token.original,
                        keyPhrase |-> token.keyPhrase,
                        variants |-> << [text |-> token.original, normalized |-> key,
                                         count |-> CountOrOne(countMap, key),
                                         language |-> token.language] >>,
                        totalCount |-> CountOrOne(countMap, key), tier |-> "C",
                        languages |-> {token.language}])

RECURSIVE IndividualFrom(_, _, _, _)
IndividualFrom(groups, keys, tokens, countMap) ==
    IF tokens = <<>> THEN groups
    ELSE LET key == ToLowerCase(Head(tokens).normalized)
         IN  IF key \in keys
             THEN IndividualFrom(groups, keys, Tail(tokens), countMap)
             ELSE IndividualFrom(IndividualToken(groups, Head(tokens), countMap),
                                 keys \cup {key}, Tail(tokens), countMap)

createIndividualGroups(tokens, entries, rounding) ==
    assignTiers(IndividualFrom(<<>>, {}, tokens, buildCountMap(entries)), rounding)

filterByMinOccurrence(groups, minOccurrence) ==
    SelectSeq(groups, LAMBDA g : g.totalCount >= minOccurrence)

DisplayModes == {"overview", "balanced", "detailed"}

limits(mode) ==
    CASE mode = "overview" -> 30
      [] mode = "balanced" -> 50
      [] mode = "detailed" -> 100

limitByDisplayMode(groups, mode) ==
    SubSeq(groups, 1, Min(Len(groups), limits(mode)))

(***************************************************************************)
(* wordCloudProcessor: the steps of processWordCloudData                   *)
(***************************************************************************)

DEFAULT_OPTIONS ==
    [displayMode |-> "balanced", showPhrases |-> TRUE, minOccurrence |-> 2,
     enableSpamFilter |-> TRUE, semanticGrouping |-> TRUE]

\* Step 1: the trimmed non-empty texts, each once, in order of first appearance
RECURSIVE UniqueTextsFrom(_, _)
UniqueTextsFrom(texts, entries) ==
    IF entries = <<>> THEN texts
    ELSE LET text == Trim(Head(entries).text)
         IN  IF Len(text) > 0 /\ ~\E i \in DOMAIN texts : texts[i] = text
             THEN UniqueTextsFrom(Append(texts, text), Tail(entries))
             ELSE UniqueTextsFrom(texts, Tail(entries))

uniqueTexts(entries) == UniqueTextsFrom(<<>>, entries)

\* Step 2
textsToProcess(entries, opts) ==
    IF opts.enableSpamFilter
    THEN SelectSeq(uniqueTexts(entries), LAMBDA text : ~isSpam(text))
    ELSE uniqueTexts(entries)

\* Step 4
GroupTokens(tokens, entries, opts, rounding) ==
    IF opts.semanticGrouping
    THEN groupSemantically(tokens, entries, rounding)
    ELSE createIndividualGroups(tokens, entries, rounding)

tierOrder(tier) ==
    CASE tier = "S" -> 0 [] tier = "A" -> 1 [] tier = "B" -> 2 [] tier = "C" -> 3

\* steps 5 to 7 with a step 7 that orders by totalCount alone, ascending
FilterLimitSortByCount(groups, opts) ==
    LET filtered == IF opts.minOccurrence > 1
                    THEN filterByMinOccurrence(groups, opts.minOccurrence)
                    ELSE groups
        limited == limitByDisplayMode(filtered, opts.displayMode)
    IN  StableSort(limited, LAMBDA a, b : a.totalCount < b.totalCount)

\* Steps 5 to 7
FilterLimitSort(groups, opts) ==
    LET filtered == IF opts.minOccurrence > 1
                    THEN filterByMinOccurrence(groups, opts.minOccurrence)
                    ELSE groups
        limited == limitByDisplayMode(filtered, opts.displayMode)
    IN  StableSort(limited, LAMBDA a, b :
            \/ tierOrder(a.tier) < tierOrder(b.tier)
            \/ tierOrder(a.tier) = tierOrder(b.tier) /\ a.totalCount > b.totalCount)

(***************************************************************************)
(* Specification SpamSpec: isSpam applied to every text made of at most    *)
(* MaxPieces pieces.                                                       *)
(***************************************************************************)

MaxPieces == 4

SpamPieces ==
    { <<97>>,                                   \* a
      <<97, 97>>,                               \* aa
      <<65>>,                                   \* A
      <<32>>,                                   \* space
      <<20013>>,                                \* a Han character
      <<12619>>,                                \* a Hangul (Korean) character
      <<97, 98>>,                               \* ab
      <<97, 115, 100>>,                         \* asd
      <<113, 119, 101, 114, 116, 121>>,         \* qwerty
      <<99, 100, 101, 102, 103, 105, 106, 107>> }   \* cdefgijk

RECURSIVE PieceTexts(_)
PieceTexts(n) ==
    IF n = 0 THEN { <<>> }
    ELSE LET shorter == PieceTexts(n - 1)
         IN  shorter \cup { t \o p : t \in shorter, p \in SpamPieces }

SpamInit ==
    /\ spamText \in PieceTexts(MaxPieces)
    /\ spamVerdict = "unset"
    /\ IdleBut("spam")

ClassifySpam ==
    /\ spamVerdict = "unset"
    /\ spamVerdict' = IF isSpam(spamText) THEN "spam" ELSE "clean"
    /\ UNCHANGED <<spamText, outsideSpam>>

SpamNext == ClassifySpam

SpamSpec == SpamInit /\ [][SpamNext]_vars

\* C2: isSpam returns true for every string that holds a run of 4 or more
\* identical consecutive characters, whatever surrounds the run. Stated for
\* the strings rule 2 does not exempt (no CJK character) and for runs the
\* trimming cannot shorten (runs of a non-white-space character).
C2_RunOfFourIsSpam ==
    ( /\ spamVerdict # "unset"
      /\ ~\E i \in DOMAIN spamText : IsCJKChar(spamText[i])
      /\ \E i \in 1..(Len(spamText) - 3) :
            /\ ~IsWhitespace(spamText[i])
            /\ \A j \in 1..3 : spamText[i + j] = spamText[i] )
    => spamVerdict = "spam"

\* C3: isSpam returns false for every string that holds at least one CJK
\* (Chinese, Japanese or Korean) character.
C3_CJKNeverSpam ==
    ( /\ spamVerdict # "unset"
      /\ \E i \in DOMAIN spamText : IsCJKChar(spamText[i]) )
    => spamVerdict = "clean"

\* C12: isSpam returns true for every string without CJK character that is a
\* unit of 2 or of 3 letters written 3 or more times in a row (asdasdasd,
\* qweqweqwe), so that the spam filter drops it before tokenization.
C12_RepeatedUnitIsSpam ==
    ( /\ spamVerdict # "unset"
      /\ ~\E i \in DOMAIN spamText : IsCJKChar(spamText[i])
      /\ IsRepeatedUnit(spamText, 2, 3) \/ IsRepeatedUnit(spamText, 3, 3) )
    => spamVerdict = "spam"

(***************************************************************************)
(* Specification AutoSpec: calculateAutoMinOccurrence applied to an entry  *)
(* list.  The list holds one text submitted many times (also as "Hi!",     *)
(* which normalizes to the same key), some texts submitted a few times,    *)
(* some submitted once, and some one-letter submissions.                   *)
(***************************************************************************)

MaxRepeated == 3
MaxUnique == 12
MaxSpam == 4

DominantCopies == {0, 1, 4, 12, 70, 300}
VariantCopies == {0, 2}
RepeatedCopies == {2, 3, 60}
PreferredWordCounts == {1, 2, 50}
SpamSensitivities == {"low", "medium", "high"}

DominantText == <<104, 105>>
VariantText == <<72, 105, 33>>
RepeatedText(i) == <<114, 101, 96 + i>>
UniqueText(i) == <<119, 96 + i>>
OneLetterText(i) == <<96 + i>>

\* the bag holding n copies of each element of elems
Copies(elems, n) == [e \in (IF n = 0 THEN {} ELSE elems) |-> n]

EntryBag(a, v, nB, b, nU, nS) ==
    Copies({SubmittedEntry(DominantText)}, a)
      (+) Copies({SubmittedEntry(VariantText)}, v)
      (+) Copies({ SubmittedEntry(RepeatedText(i)) : i \in 1..nB }, b)
      (+) Copies({ SubmittedEntry(UniqueText(i)) : i \in 1..nU }, 1)
      (+) Copies({ SubmittedEntry(OneLetterText(i)) : i \in 1..nS }, 1)

AutoInit ==
    /\ \E a \in DominantCopies, v \in VariantCopies, nB \in 0..MaxRepeated,
          b \in RepeatedCopies, nU \in 0..MaxUnique, nS \in 0..MaxSpam :
          autoEntries = EntryBag(a, v, nB, b, nU, nS)
    /\ autoPref \in PreferredWordCounts
    /\ autoSens \in SpamSensitivities
    /\ autoDone = FALSE
    /\ autoResult = 0
    /\ IdleBut("auto")

CalculateAuto ==
    /\ ~autoDone
    /\ autoResult' = calculateAutoMinOccurrence(autoEntries, autoPref, autoSens)
    /\ autoDone' = TRUE
    /\ UNCHANGED <<autoEntries, autoPref, autoSens, outsideAuto>>

AutoNext == CalculateAuto

AutoSpec == AutoInit /\ [][AutoNext]_vars

\* C4: whatever the entry list, calculateAutoMinOccurrence returns an integer
\* between 1 and 10, and it returns exactly 1 when there are fewer than 10 entries.
C4_ThresholdBounded ==
    autoDone =>
        /\ autoResult \in 1..10
        /\ BagCardinality(autoEntries) < 10 => autoResult = 1

\* a list of at least 10 entries for which the upper bound 10 is what comes back
C4_Witness ==
    /\ autoDone
    /\ BagCardinality(autoEntries) >= 10
    /\ autoResult = 10

\* C15 as stated: for every entry list with a spamRatio above 0.2,
\* calculateAutoMinOccurrence returns at least 2.
C15_SpamFloor ==
    (autoDone /\ 10 * spamCount(autoEntries) > 2 * BagCardinality(autoEntries))
        => autoResult >= 2

\* C15, amended: for every list of at least 10 entries with a spamRatio above
\* 0.2, calculateAutoMinOccurrence returns at least 2, for every
\* preferredWordCount and spamSensitivity; a list of fewer than 10 entries gets
\* 1 whatever its spamRatio.
C15_SpamFloorFromTen ==
    (autoDone /\ 10 * spamCount(autoEntries) > 2 * BagCardinality(autoEntries))
        => IF BagCardinality(autoEntries) >= 10 THEN autoResult >= 2 ELSE autoResult = 1

\* 10 or more entries without a dominant text, more than a fifth of them spam,
\* sensitivity low: the floor is what holds the result at 2
C15_Witness ==
    /\ autoDone
    /\ autoSens = "low"
    /\ BagCardinality(autoEntries) >= 10
    /\ 10 * spamCount(autoEntries) > 2 * BagCardinality(autoEntries)
    /\ 10 * getFrequencyDistribution(autoEntries)[1] <= 4 * BagCardinality(autoEntries)
    /\ autoResult = 2

\* C20: where calculateAutoMinOccurrence reaches the adjustment stage, the
\* threshold is raised for spam by 0 for sensitivity low; by 1 for medium when
\* spamRatio > 0.15 and 0 otherwise; for high by 3 when spamRatio > 0.25, by 2
\* when 0.1 < spamRatio <= 0.25 and 0 otherwise: what is returned is what the
\* later adjustments and bounds make of the threshold raised by that much.
C20_SpamBonus ==
    (autoDone /\ ReachesAdjustment(autoEntries)) =>
        LET spam == spamCount(autoEntries)
            total == BagCardinality(autoEntries)
            bonus == CASE autoSens = "low" -> 0
                       [] autoSens = "medium" -> IF 100 * spam > 15 * total THEN 1 ELSE 0
                       [] autoSens = "high" ->
                             IF 100 * spam > 25 * total THEN 3
                             ELSE IF 10 * spam > total THEN 2 ELSE 0
        IN  autoResult = AdjustedThreshold(autoEntries, autoPref, bonus)

\* C27: for every non-empty entry list and every option value, what
\* calculateAutoMinOccurrence returns is at most the highest frequency of the
\* list's frequency distribution: some text reaches the threshold.
C27_SomethingVisible ==
    (autoDone /\ BagCardinality(autoEntries) > 0) =>
        /\ autoResult <= getFrequencyDistribution(autoEntries)[1]
        /\ countWordsAboveThreshold(getFrequencyDistribution(autoEntries), autoResult) >= 1

(***************************************************************************)
(* Specification TierSpec: assignTiers applied to a list of groups, and    *)
(* steps 5 to 7 of processWordCloudData applied to what it returns.  The   *)
(* list has groups of a large, a middling and a small totalCount, not in   *)
(* order of totalCount.                                                    *)
(***************************************************************************)

MaxTopGroups == 6
MaxMidGroups == 2
MaxLowGroups == 21

TopCounts == {5, 13}
TierMinOccurrences == {1, 2}

\* n groups of the given totalCount, as clusterByKeyPhrase creates them (tier C)
RECURSIVE GroupBlock(_, _, _)
GroupBlock(block, n, count) ==
    IF n = 0 THEN <<>>
    ELSE Append(GroupBlock(block, n - 1, count),
                [canonical |-> <<block, n>>, totalCount |-> count, tier |-> "C"])

TierInit ==
    /\ \E top \in 0..MaxTopGroups, mid \in 0..MaxMidGroups, low \in 0..MaxLowGroups,
          count \in TopCounts :
          tierGroups = GroupBlock(3, low, 1) \o GroupBlock(1, top, count) \o GroupBlock(2, mid, 2)
    /\ tierOpts \in [displayMode : DisplayModes, minOccurrence : TierMinOccurrences]
    /\ tierStage = "grouped"
    /\ fpRounding \in Roundings
    /\ IdleBut("tier")

AssignTiers ==
    /\ tierStage = "grouped"
    /\ tierGroups' = assignTiers(tierGroups, fpRounding)
    /\ tierStage' = "tiered"
    /\ UNCHANGED <<tierOpts, fpRounding, outsideTier>>

FinishOutput ==
    /\ tierStage = "tiered"
    /\ tierGroups' = FilterLimitSort(tierGroups, tierOpts)
    /\ tierStage' = "output"
    /\ UNCHANGED <<tierOpts, fpRounding, outsideTier>>

TierNext == AssignTiers \/ FinishOutput

TierSpec == TierInit /\ [][TierNext]_vars

TierCount(groups, tiers) == Cardinality({ i \in DOMAIN groups : groups[i].tier \in tiers })

\* C5: for any list of groups, after assignTiers and in the final output of
\* processWordCloudData at most 5 groups have tier S and at most 20 have tier S or A.
C5_TierCap ==
    tierStage \in {"tiered", "output"} =>
        /\ TierCount(tierGroups, {"S"}) <= 5
        /\ TierCount(tierGroups, {"S", "A"}) <= 20

\* a final output of more than 20 groups in which both caps are met exactly
C5_Witness ==
    /\ tierStage = "output"
    /\ Len(tierGroups) > 20
    /\ TierCount(tierGroups, {"S"}) = 5
    /\ TierCount(tierGroups, {"S", "A"}) = 20

\* C18: the list processWordCloudData returns is sorted by tier rank ascending
\* (S, A, B, C) and, within one tier, by totalCount descending, for every list
\* of groups, every minOccurrence and every displayMode.
C18_FinalOrdering ==
    tierStage = "output" =>
        \A i \in 1..(Len(tierGroups) - 1) :
            \/ tierOrder(tierGroups[i].tier) < tierOrder(tierGroups[i + 1].tier)
            \/ /\ tierOrder(tierGroups[i].tier) = tierOrder(tierGroups[i + 1].tier)
               /\ tierGroups[i].totalCount >= tierGroups[i + 1].totalCount

\* a returned list holding three tiers, with groups of different totalCount
\* inside its first tier
C18_Witness ==
    /\ tierStage = "output"
    /\ Cardinality({ tierGroups[i].tier : i \in DOMAIN tierGroups }) >= 3
    /\ \E i, j \in DOMAIN tierGroups :
          /\ tierGroups[i].tier = "S" /\ tierGroups[j].tier = "S"
          /\ tierGroups[i].totalCount > tierGroups[j].totalCount

\* C19: assignTiers leaves the groups in order of totalCount descending, and the
\* group at rank i (from 0), with cumulativePercent the share of the grand total
\* held by ranks 0..i, has tier S if i < 5 and cumulativePercent <= 65, else A if
\* i < 20 and cumulativePercent <= 90, else B if i < 50, else C.
C19_TierRule ==
    tierStage = "tiered" =>
        LET total == SumTotalCount(tierGroups)
            held[i \in 0..Len(tierGroups)] ==
                IF i = 0 THEN 0 ELSE held[i - 1] + tierGroups[i].totalCount
        IN  \A i \in DOMAIN tierGroups :
                /\ i > 1 => tierGroups[i - 1].totalCount >= tierGroups[i].totalCount
                /\ tierGroups[i].tier = TierAt(i - 1, 100 * held[i] <= 65 * total,
                                                      100 * held[i] <= 90 * total)

\* C26: after assignTiers and in the final output, a group with a strictly
\* larger totalCount never has a lower tier than a group with a smaller one, and
\* the final output, ordered by tier and count, is in order of totalCount
\* descending.
C26_TierMonotone ==
    tierStage \in {"tiered", "output"} =>
        /\ \A i, j \in DOMAIN tierGroups :
              tierGroups[i].totalCount > tierGroups[j].totalCount =>
                  tierOrder(tierGroups[i].tier) <= tierOrder(tierGroups[j].tier)
        /\ \A i \in 1..(Len(tierGroups) - 1) :
              tierGroups[i].totalCount >= tierGroups[i + 1].totalCount

\* a final output in which two groups of one totalCount have different tiers
\* and groups of three different totalCounts are present
C26_Witness ==
    /\ tierStage = "output"
    /\ Cardinality({ tierGroups[i].totalCount : i \in DOMAIN tierGroups }) = 3
    /\ \E i, j \in DOMAIN tierGroups :
          /\ tierGroups[i].totalCount = tierGroups[j].totalCount
          /\ tierGroups[i].tier # tierGroups[j].tier

(***************************************************************************)
(* Specification CloudSpec: the WordCloud component.  Whenever its entries *)
(* or options change, its effect starts an invocation of processEntries,   *)
(* which awaits processWordCloudData and then calls setGroups.  The awaits *)
(* of an invocation resume in microtasks, which run before the next event  *)
(* is handled, except the await of jiebaInit() inside initJieba, which     *)
(* waits for the WASM module to load.  So an invocation runs from its      *)
(* start, and again from each settling of its jiebaInit(), until it calls  *)
(* jiebaInit() or has called setGroups.  The totalCounts of a list of      *)
(* MaxEntries entries add up to less than 10, so no cumulative share is    *)
(* exactly 65 or 90 percent and fpRounding plays no part.                  *)
(***************************************************************************)

MaxEntries == 3
MaxInvocations == 3

\* "cat", "Cat", "cat!" and a Chinese phrase of a verb and a dictionary word
SampleTexts == { <<99, 97, 116>>, <<67, 97, 116>>, <<99, 97, 116, 33>>, <<21507, 40481, 32905>> }

\* the option props BigScreen passes (enableSpamFilter is always true)
OptionChoices ==
    [displayMode : {"balanced"}, showPhrases : {TRUE}, minOccurrence : {1, 2},
     enableSpamFilter : {TRUE}, semanticGrouping : BOOLEAN]

\* franc is a function of the text: "und" for the texts shorter than 10
\* characters, which all of SampleTexts are
franc(text) == CHOOSE detected \in FrancAnswers(text) : TRUE

CloudInit ==
    /\ wcEntries = <<>>
    /\ wcOptions = DEFAULT_OPTIONS
    /\ wcGroups = <<>>
    /\ wcGroupsFrom = 0
    /\ wcInvocations = <<>>
    /\ jiebaInstance = 0
    /\ jiebaInitialized = FALSE
    /\ jiebaInitCalls = 0
    /\ IdleBut("cloud")

\* the body of the loop of processWordCloudData once processMultilingual(text)
\* has returned its token
WithToken(inv, token) ==
    [inv EXCEPT !.todo = Tail(@),
                !.tokens = IF Len(token.normalized) > 0 THEN Append(@, token) ELSE @]

\* after the loop: steps 4 to 7 (or the early return of no tokens)
Finished(inv) ==
    LET grouped == IF inv.tokens = <<>> THEN <<>>
                   ELSE GroupTokens(inv.tokens, inv.entries, inv.opts, fpRounding)
    IN  [inv EXCEPT !.status = "done",
                    !.grouped = grouped,
                    !.result = IF inv.tokens = <<>> THEN <<>> ELSE FilterLimitSort(grouped, inv.opts)]

\* the invocation runs on: text after text, until a Chinese or mixed text
\* finds jiebaInitialized false in initJieba and jiebaInit() is called, or
\* until the loop is over.  Nothing else runs in between, so jiebaInstance
\* and jiebaInitialized are the same for all these texts.
RECURSIVE RunOn(_)
RunOn(inv) ==
    IF inv.todo = <<>> THEN Finished(inv)
    ELSE IF AwaitsInitJieba(Head(inv.todo), franc(Head(inv.todo))) /\ ~jiebaInitialized'
    THEN [inv EXCEPT !.status = "awaitInit", !.call = jiebaInitCalls + 1]
    ELSE RunOn(WithToken(inv, processMultilingual(Head(inv.todo), franc(Head(inv.todo)),
                                                  jiebaInstance')))

\* processEntries with non-empty entries ({...DEFAULT_OPTIONS, ...options} is
\* options: the effect passes all five)
NewInvocation(entries, opts) ==
    RunOn([entries |-> entries, opts |-> opts, todo |-> textsToProcess(entries, opts),
           tokens |-> <<>>, status |-> "running", call |-> 0,
           grouped |-> <<>>, result |-> <<>>])

\* what invocation i, just run on, leaves behind: a jiebaInit() call counted,
\* or the groups set
Settle(i) ==
    IF wcInvocations'[i].status = "done"
    THEN /\ wcGroups' = wcInvocations'[i].result
         /\ wcGroupsFrom' = i
         /\ UNCHANGED jiebaInitCalls
    ELSE /\ jiebaInitCalls' = jiebaInitCalls + 1
         /\ UNCHANGED <<wcGroups, wcGroupsFrom>>

\* the entries prop changes: BigScreen appended a fetched entry
EntriesArrive ==
    /\ Len(wcEntries) < MaxEntries
    /\ Len(wcInvocations) < MaxInvocations
    /\ UNCHANGED <<jiebaInstance, jiebaInitialized>>
    /\ \E text \in SampleTexts :
          /\ wcEntries' = Append(wcEntries, SubmittedEntry(text))
          /\ wcInvocations' = Append(wcInvocations, NewInvocation(wcEntries', wcOptions))
    /\ Settle(Len(wcInvocations'))
    /\ UNCHANGED <<wcOptions, fpRounding, outsideCloud>>

\* an option prop changes; with no entries the effect only calls setGroups([])
OptionsChange ==
    /\ \E opts \in OptionChoices \ {wcOptions} : wcOptions' = opts
    /\ UNCHANGED <<jiebaInstance, jiebaInitialized>>
    /\ IF wcEntries = <<>>
       THEN /\ wcGroups' = <<>>
            /\ UNCHANGED <<wcInvocations, wcGroupsFrom, jiebaInitCalls>>
       ELSE /\ Len(wcInvocations) < MaxInvocations
            /\ wcInvocations' = Append(wcInvocations, NewInvocation(wcEntries, wcOptions'))
            /\ Settle(Len(wcInvocations'))
    /\ UNCHANGED <<wcEntries, fpRounding, outsideCloud>>

\* the jiebaInit() awaited by invocation i resolves: initJieba stores the
\* instance and returns, the text is processed, and the invocation runs on
JiebaInitResolves(i) ==
    /\ wcInvocations[i].status = "awaitInit"
    /\ jiebaInstance' = wcInvocations[i].call
    /\ jiebaInitialized' = TRUE
    /\ wcInvocations' = [wcInvocations EXCEPT ![i] = RunOn(
          WithToken(@, processMultilingual(Head(@.todo), franc(Head(@.todo)), jiebaInstance')))]
    /\ Settle(i)
    /\ UNCHANGED <<wcEntries, wcOptions, fpRounding, outsideCloud>>

\* the jiebaInit() awaited by invocation i rejects: initJieba catches, clears
\* jiebaInitialized and returns, the text is processed with whatever
\* jiebaInstance holds, and the invocation runs on
JiebaInitRejects(i) ==
    /\ wcInvocations[i].status = "awaitInit"
    /\ jiebaInitialized' = FALSE
    /\ UNCHANGED jiebaInstance
    /\ wcInvocations' = [wcInvocations EXCEPT ![i] = RunOn(
          WithToken(@, processMultilingual(Head(@.todo), franc(Head(@.todo)), jiebaInstance')))]
    /\ Settle(i)
    /\ UNCHANGED <<wcEntries, wcOptions, fpRounding, outsideCloud>>

\* the jiebaInit() awaited by invocation i resolves and initJieba stores the
\* instance, but jiebaInstance.cut(text) throws: processChinese catches and
\* returns the token it returns for no instance, and the invocation runs on
JiebaCutThrows(i) ==
    /\ wcInvocations[i].status = "awaitInit"
    /\ jiebaInstance' = wcInvocations[i].call
    /\ jiebaInitialized' = TRUE
    /\ wcInvocations' = [wcInvocations EXCEPT ![i] = RunOn(
          WithToken(@, processMultilingual(Head(@.todo), franc(Head(@.todo)), 0)))]
    /\ Settle(i)
    /\ UNCHANGED <<wcEntries, wcOptions, fpRounding, outsideCloud>>

CloudNext ==
    \/ EntriesArrive
    \/ OptionsChange
    \/ \E i \in DOMAIN wcInvocations : JiebaInitResolves(i)
    \/ \E i \in DOMAIN wcInvocations : JiebaInitRejects(i)
    \/ \E i \in DOMAIN wcInvocations : JiebaCutThrows(i)

CloudSpec == CloudInit /\ [][CloudNext]_vars

Done(i) == wcInvocations[i].status = "done"

\* the entries of invocation i whose text resolved to the key phrase canonical
ResolvingEntries(i, canonical) ==
    LET inv == wcInvocations[i]
    IN  { k \in DOMAIN inv.entries :
            \E t \in DOMAIN inv.tokens :
                /\ inv.tokens[t].original = Trim(inv.entries[k].text)
                /\ ToLowerCase(inv.tokens[t].keyPhrase) = canonical }

\* the entries of invocation i that are empty or were dropped by the spam filter
DroppedEntries(i) ==
    LET inv == wcInvocations[i]
    IN  { k \in DOMAIN inv.entries :
            \/ Len(Trim(inv.entries[k].text)) = 0
            \/ inv.opts.enableSpamFilter /\ isSpam(Trim(inv.entries[k].text)) }

\* C1: in every run with semantic grouping on, before the min-occurrence and
\* display-limit steps, each group's totalCount is the number of entries whose
\* text resolved to the group's canonical key phrase, and the totalCounts plus
\* the empty and spam-filtered entries add up to the number of entries.
C1_CountConservation ==
    \A i \in DOMAIN wcInvocations :
        (Done(i) /\ wcInvocations[i].opts.semanticGrouping) =>
            /\ \A g \in DOMAIN wcInvocations[i].grouped :
                  wcInvocations[i].grouped[g].totalCount
                    = Cardinality(ResolvingEntries(i, wcInvocations[i].grouped[g].canonical))
            /\ SumTotalCount(wcInvocations[i].grouped) + Cardinality(DroppedEntries(i))
                  = Len(wcInvocations[i].entries)

\* C6: two runs of processWordCloudData on the same entry snapshot with the same
\* options return the same group list, whatever the state of the segmentation
\* backend was during each.
C6_Idempotent ==
    \A i, j \in DOMAIN wcInvocations :
        ( /\ Done(i) /\ Done(j)
          /\ wcInvocations[i].entries = wcInvocations[j].entries
          /\ wcInvocations[i].opts = wcInvocations[j].opts )
        => wcInvocations[i].result = wcInvocations[j].result

\* C7: at no time are two calls of jiebaInit under way: callers that reach
\* initJieba while an initialisation is pending do not start another.
C7_SingleFlight ==
    Cardinality({ i \in DOMAIN wcInvocations : wcInvocations[i].status = "awaitInit" }) <= 1

\* C8: once every invocation has completed, the groups WordCloud holds are the
\* result of the invocation started last, the one for the latest entries and options.
C8_LatestWins ==
    ( /\ wcInvocations # <<>>
      /\ \A i \in DOMAIN wcInvocations : Done(i) )
    => wcGroups = Last(wcInvocations).result

\* the step of invocation i in which the backend fails for the Chinese text
\* the invocation waits with: jiebaInit() rejects and there is no instance,
\* or cut throws
BackendFails(i) ==
    /\ wcInvocations[i].status = "awaitInit"
    /\ detectLanguage(Trim(Head(wcInvocations[i].todo)), franc(Head(wcInvocations[i].todo))) = "zh"
    /\ \/ JiebaInitRejects(i) /\ jiebaInstance = 0
       \/ JiebaCutThrows(i)

\* C23: when the segmentation backend fails to initialise or cut throws,
\* processChinese returns, and processMultilingual through it, a token whose
\* normalized and keyPhrase are the input text and whose type is word; the
\* invocation goes on, and when it is done every text of the batch has its
\* token and the tokens are grouped.
C23_DegradesToIdentity ==
    [][\A i \in DOMAIN wcInvocations :
          BackendFails(i) =>
              LET text == Trim(Head(wcInvocations[i].todo))
                  after == wcInvocations'[i]
                  token == after.tokens[Len(wcInvocations[i].tokens) + 1]
              IN  /\ Len(after.tokens) > Len(wcInvocations[i].tokens)
                  /\ token.original = text
                  /\ token.normalized = text
                  /\ token.keyPhrase = text
                  /\ token.type = "word"
                  /\ after.status \in {"awaitInit", "done"}
                  /\ after.status = "done" =>
                        /\ Len(after.tokens) = Len(textsToProcess(after.entries, after.opts))
                        /\ \A t \in DOMAIN after.tokens :
                              \E g \in DOMAIN after.grouped :
                                  ToLowerCase(after.grouped[g].canonical)
                                    = ToLowerCase(after.tokens[t].keyPhrase)]_vars

\* an invocation is done with no backend: its Chinese phrase, which jieba cuts
\* in two, has the identity token, and an English text of the batch has its own
C23_Witness ==
    /\ jiebaInstance = 0
    /\ jiebaInitCalls > 0
    /\ \E i \in DOMAIN wcInvocations :
          /\ Done(i)
          /\ \E t, u \in DOMAIN wcInvocations[i].tokens :
                /\ wcInvocations[i].tokens[t].language = "zh"
                /\ Len(JiebaCut(wcInvocations[i].tokens[t].original)) > 1
                /\ wcInvocations[i].tokens[t].keyPhrase = wcInvocations[i].tokens[t].original
                /\ wcInvocations[i].tokens[u].language = "en"
          /\ Len(wcInvocations[i].grouped) > 1

(***************************************************************************)
(* Specification PollSpec: participants insert entries for one session     *)
(* (handleSubmitWord) while the Big Screen loads the session and polls     *)
(* for entries newer than lastTimestampRef.  An insert is a transaction:   *)
(* created_at defaults to NOW(), the time the transaction began, and the   *)
(* row is visible to queries once the transaction has committed.  A row    *)
(* is [id, created_at].                                                    *)
(***************************************************************************)

MaxInserts == 3
MaxClock == 3

\* .order('created_at', { ascending: true }) of a set of rows (rows of equal
\* created_at in order of id)
RECURSIVE OrderedByCreatedAt(_)
OrderedByCreatedAt(rows) ==
    IF rows = {} THEN <<>>
    ELSE LET first == CHOOSE r \in rows : \A q \in rows :
                          \/ r.created_at < q.created_at
                          \/ r.created_at = q.created_at /\ r.id <= q.id
         IN  <<first>> \o OrderedByCreatedAt(rows \ {first})

PollInit ==
    /\ dbClock = 1
    /\ dbOpen = {}
    /\ dbRows = {}
    /\ bsEntries = <<>>
    /\ bsLastTimestamp = 0
    /\ bsLoad = [stage |-> "todo", rows |-> <<>>]
    /\ bsPoll = [stage |-> "idle", rows |-> <<>>]
    /\ IdleBut("poll")

\* time passes
Tick ==
    /\ dbClock < MaxClock
    /\ dbClock' = dbClock + 1
    /\ UNCHANGED <<dbOpen, dbRows, bsEntries, bsLastTimestamp, bsLoad, bsPoll, outsidePoll>>

\* handleSubmitWord: the insert reaches the database and its transaction begins
BeginInsert ==
    /\ Cardinality(dbOpen) + Cardinality(dbRows) < MaxInserts
    /\ dbOpen' = dbOpen \cup { [id |-> Cardinality(dbOpen) + Cardinality(dbRows) + 1,
                                created_at |-> dbClock] }
    /\ UNCHANGED <<dbClock, dbRows, bsEntries, bsLastTimestamp, bsLoad, bsPoll, outsidePoll>>

\* the transaction of an insert commits
CommitInsert ==
    /\ \E row \in dbOpen :
          /\ dbOpen' = dbOpen \ {row}
          /\ dbRows' = dbRows \cup {row}
    /\ UNCHANGED <<dbClock, bsEntries, bsLastTimestamp, bsLoad, bsPoll, outsidePoll>>

\* loadSession: the query for the existing entries
LoadQuery ==
    /\ bsLoad.stage = "todo"
    /\ bsLoad' = [stage |-> "inflight", rows |-> OrderedByCreatedAt(dbRows)]
    /\ UNCHANGED <<dbClock, dbOpen, dbRows, bsEntries, bsLastTimestamp, bsPoll, outsidePoll>>

\* loadSession: setEntries(initial), and the cursor if there are any
LoadResponse ==
    /\ bsLoad.stage = "inflight"
    /\ bsEntries' = bsLoad.rows
    /\ bsLastTimestamp' = IF Len(bsLoad.rows) > 0 THEN Last(bsLoad.rows).created_at
                          ELSE bsLastTimestamp
    /\ bsLoad' = [stage |-> "done", rows |-> <<>>]
    /\ UNCHANGED <<dbClock, dbOpen, dbRows, bsPoll, outsidePoll>>

\* fetchNewEntries, from the interval timer: the query, with the cursor as it is now
PollQuery ==
    /\ bsPoll.stage = "idle"
    /\ bsPoll' = [stage |-> "inflight",
                  rows |-> OrderedByCreatedAt({ r \in dbRows :
                              bsLastTimestamp = 0 \/ r.created_at > bsLastTimestamp })]
    /\ UNCHANGED <<dbClock, dbOpen, dbRows, bsEntries, bsLastTimestamp, bsLoad, outsidePoll>>

\* fetchNewEntries: the data arrives and is merged
PollResponse ==
    /\ bsPoll.stage = "inflight"
    /\ LET existingIds == { bsEntries[k].id : k \in DOMAIN bsEntries }
           fresh == SelectSeq(bsPoll.rows, LAMBDA r : r.id \notin existingIds)
           merged == bsEntries \o fresh
       IN  IF Len(bsPoll.rows) = 0 \/ Len(fresh) = 0
           THEN UNCHANGED <<bsEntries, bsLastTimestamp>>
           ELSE /\ bsEntries' = merged
                /\ bsLastTimestamp' = Last(merged).created_at
    /\ bsPoll' = [stage |-> "idle", rows |-> <<>>]
    /\ UNCHANGED <<dbClock, dbOpen, dbRows, bsLoad, outsidePoll>>

PollNext ==
    \/ Tick
    \/ BeginInsert
    \/ CommitInsert
    \/ LoadQuery
    \/ LoadResponse
    \/ PollQuery
    \/ PollResponse

\* Every transaction commits and every query is answered; the interval timer
\* keeps firing.
PollFairSpec ==
    /\ PollInit
    /\ [][PollNext]_vars
    /\ WF_vars(CommitInsert)
    /\ WF_vars(LoadQuery)
    /\ WF_vars(LoadResponse)
    /\ WF_vars(PollQuery)
    /\ WF_vars(PollResponse)

Committed(id) == \E r \in dbRows : r.id = id
OnBigScreen(id) == \E k \in DOMAIN bsEntries : bsEntries[k].id = id

\* C9: every entry inserted for the session is eventually in the Big Screen's
\* entries list, however the inserts interleave with the polls.
C9_EventuallyVisible ==
    \A id \in 1..MaxInserts : Committed(id) ~> OnBigScreen(id)

(***************************************************************************)
(* Specification JoinedSpec: one participant's browser.  localStorage      *)
(* outlives the tab, sessionStorage does not.  The participant opens join  *)
(* pages and the dashboard, starts contributing, and leaves sessions from  *)
(* the join page or from the dashboard.                                    *)
(***************************************************************************)

MaxSessions == 3

Sessions == 1..MaxSessions

\* joinedSessionIds.filter((id) => id !== sessionId)
Without(ids, sessionId) == SelectSeq(ids, LAMBDA id : id # sessionId)

\* the push of handleStartContributing
PushJoinedUnchecked(ids, sessionId) == Append(ids, sessionId)
PushJoined(ids, sessionId) ==
    IF \E k \in DOMAIN ids : ids[k] = sessionId THEN ids ELSE Append(ids, sessionId)

JoinedInit ==
    /\ lsJoinedSessions = <<>>
    /\ ssParticipants = {}
    /\ page = "home"
    /\ joinSessionId = 0
    /\ viewMode = "setup"
    /\ nickname = FALSE
    /\ infoModal = FALSE
    /\ dashJoined = <<>>
    /\ contributing = {}
    /\ IdleBut("joined")

\* the join page of a session is opened: JoinSession mounts in setup mode
\* with no nickname, and its effect restores what sessionStorage holds
OpenJoinPage ==
    /\ \E sessionId \in Sessions :
          /\ joinSessionId' = sessionId
          /\ viewMode' = IF sessionId \in ssParticipants THEN "contributing" ELSE "setup"
          /\ nickname' = (sessionId \in ssParticipants)
    /\ page' = "join"
    /\ infoModal' = FALSE
    /\ UNCHANGED <<lsJoinedSessions, ssParticipants, dashJoined, contributing, outsideJoined>>

\* the nickname field is filled in (typed or generated) or emptied
EditNickname ==
    /\ page = "join"
    /\ viewMode = "setup"
    /\ nickname' = ~nickname
    /\ UNCHANGED <<lsJoinedSessions, ssParticipants, page, joinSessionId, viewMode,
                   infoModal, dashJoined, contributing, outsideJoined>>

\* handleStartContributing
StartContributing ==
    /\ page = "join"
    /\ viewMode = "setup"
    /\ IF ~nickname
       THEN /\ infoModal' = TRUE
            /\ UNCHANGED <<lsJoinedSessions, ssParticipants, viewMode, contributing>>
       ELSE /\ ssParticipants' = ssParticipants \cup {joinSessionId}
            /\ lsJoinedSessions' = PushJoined(lsJoinedSessions, joinSessionId)
            /\ viewMode' = "contributing"
            /\ contributing' = contributing \cup {joinSessionId}
            /\ UNCHANGED infoModal
    /\ UNCHANGED <<page, joinSessionId, nickname, dashJoined, outsideJoined>>

\* handleLeaveSession, the Leave button of the contributing view
LeaveSession ==
    /\ page = "join"
    /\ viewMode = "contributing"
    /\ lsJoinedSessions' = Without(lsJoinedSessions, joinSessionId)
    /\ ssParticipants' = ssParticipants \ {joinSessionId}
    /\ page' = "home"
    /\ contributing' = contributing \ {joinSessionId}
    /\ UNCHANGED <<joinSessionId, viewMode, nickname, infoModal, dashJoined, outsideJoined>>

\* the dashboard is opened: loadSessions lists the sessions of joinedSessions
OpenDashboard ==
    /\ page' = "dashboard"
    /\ dashJoined' = lsJoinedSessions
    /\ UNCHANGED <<lsJoinedSessions, ssParticipants, joinSessionId, viewMode, nickname,
                   infoModal, contributing, outsideJoined>>

\* leaveJoinedSession, the Leave button of a session the dashboard lists
DashboardLeave ==
    /\ page = "dashboard"
    /\ \E k \in DOMAIN dashJoined :
          /\ lsJoinedSessions' = Without(lsJoinedSessions, dashJoined[k])
          /\ ssParticipants' = ssParticipants \ {dashJoined[k]}
          /\ contributing' = contributing \ {dashJoined[k]}
    /\ dashJoined' = lsJoinedSessions'
    /\ UNCHANGED <<page, joinSessionId, viewMode, nickname, infoModal, outsideJoined>>

\* the tab is closed and the application opened in a new one: sessionStorage
\* starts empty, localStorage is kept
NewTab ==
    /\ ssParticipants' = {}
    /\ page' = "home"
    /\ UNCHANGED <<lsJoinedSessions, joinSessionId, viewMode, nickname, infoModal,
                   dashJoined, contributing, outsideJoined>>

JoinedNext ==
    \/ OpenJoinPage
    \/ EditNickname
    \/ StartContributing
    \/ LeaveSession
    \/ OpenDashboard
    \/ DashboardLeave
    \/ NewTab

JoinedSpec == JoinedInit /\ [][JoinedNext]_vars

\* C10: after any sequence of Start Contributing and Leave actions, joinedSessions
\* holds a session id exactly when the participant started contributing to that
\* session and has not left it since, and it holds no id twice.
C10_JoinedTracked ==
    /\ { lsJoinedSessions[k] : k \in DOMAIN lsJoinedSessions } = contributing
    /\ \A k, m \in DOMAIN lsJoinedSessions : lsJoinedSessions[k] = lsJoinedSessions[m] => k = m

\* Start Contributing was pressed again, in a new tab, for a session that is
\* already in joinedSessions along with another one
C10_Witness ==
    /\ page = "join"
    /\ viewMode = "contributing"
    /\ Len(lsJoinedSessions) >= 2
    /\ joinSessionId \in contributing
    /\ joinSessionId = lsJoinedSessions[1]
    /\ ssParticipants = {joinSessionId}

(***************************************************************************)
(* Specification PipeSpec: one processWordCloudData call as BigScreen and  *)
(* WordCloud make it.  BigScreen holds a list of entries and decides the   *)
(* min occurrence (calculateAutoMinOccurrence in auto mode, the setting in *)
(* manual mode); WordCloud passes both to processWordCloudData.  The list  *)
(* holds one text many times, some texts once, and possibly rows as a      *)
(* client without the form's checks could have stored them.  Every text is *)
(* shorter than 10 characters and without Chinese, so franc answers "und"  *)
(* and no call waits for jiebaInit.                                        *)
(***************************************************************************)

MaxDominant == 7
MaxFillers == 4

\* entry.text of a row whose text is missing (undefined or null), and of a
\* row whose text is a value that is no string (a number other than 0)
undefined == <<-1>>
notAString == <<-2>>

\* pizza, cat!
DominantTexts == { <<112, 105, 122, 122, 97>>, <<99, 97, 116, 33>> }

FillerText(i) == <<102, 96 + i>>

\* "nasi" and "saya nasi"; a row of blanks, a row of no text, rows without
\* text (with and without a stored normalized_text), a row whose text is a number
SpecialEntries ==
    << SubmittedEntry(<<110, 97, 115, 105>>),
       SubmittedEntry(<<115, 97, 121, 97, 32, 110, 97, 115, 105>>),
       [text |-> <<32, 32>>, normalized_text |-> <<>>],
       [text |-> <<>>, normalized_text |-> <<>>],
       [text |-> undefined, normalized_text |-> <<104, 105>>],
       [text |-> undefined, normalized_text |-> <<>>],
       [text |-> notAString, normalized_text |-> <<>>] >>

RECURSIVE Repeat(_, _)
Repeat(entry, n) == IF n = 0 THEN <<>> ELSE Append(Repeat(entry, n - 1), entry)

SeqToBag(s) ==
    [e \in { s[i] : i \in DOMAIN s } |-> Cardinality({ i \in DOMAIN s : s[i] = e })]

\* entry.text && entry.text.trim(): a text that is no string and not falsy
\* has no trim method
TrimThrows(entries) == \E i \in DOMAIN entries : entries[i].text = notAString

\* entry.normalized_text || entry.text.toLowerCase(): without normalized_text,
\* a text that is no string has no toLowerCase method
KeyThrows(entries) ==
    \E i \in DOMAIN entries :
        entries[i].normalized_text = <<>> /\ entries[i].text \in {undefined, notAString}

\* the entries with a missing text read as the falsy value it is
Falsy(entries) ==
    [i \in DOMAIN entries |->
        IF entries[i].text = undefined THEN [entries[i] EXCEPT !.text = <<>>] ELSE entries[i]]

\* Step 3 for texts that do not wait for jiebaInit
RECURSIVE TokensOf(_, _)
TokensOf(texts, instance) ==
    IF texts = <<>> THEN <<>>
    ELSE LET token == processMultilingual(Head(texts), franc(Head(texts)), instance)
         IN  (IF Len(token.normalized) > 0 THEN <<token>> ELSE <<>>)
                \o TokensOf(Tail(texts), instance)

PipeInit ==
    /\ \E d \in DominantTexts, a \in {0, MaxDominant}, n \in 0..MaxFillers,
          specials \in { few \in SUBSET DOMAIN SpecialEntries :
                          Cardinality(few) <= 1 \/ few = {1, 2} } :
          pipeEntries = Repeat(SubmittedEntry(d), a)
                          \o [i \in 1..n |-> SubmittedEntry(FillerText(i))]
                          \o SelectSeq(SpecialEntries, LAMBDA e :
                                \E k \in specials : SpecialEntries[k] = e)
    /\ pipeOpts \in [displayMode : {"balanced"}, showPhrases : {TRUE}, minOccurrence : {2},
                     enableSpamFilter : {TRUE}, semanticGrouping : BOOLEAN]
    /\ pipeStage = "start"
    /\ pipeMinOcc = 2
    /\ pipeTokens = <<>>
    /\ pipeGroups = <<>>
    /\ pipeOutput = <<>>
    /\ fpRounding \in Roundings
    /\ IdleBut("pipe")

\* BigScreen in auto mode: the effect that calls calculateAutoMinOccurrence
AutoMinOccurrence ==
    /\ pipeStage = "start"
    /\ Len(pipeEntries) > 0
    /\ IF KeyThrows(pipeEntries)
       THEN pipeStage' = "effectThrew" /\ UNCHANGED pipeMinOcc
       ELSE /\ pipeMinOcc' = calculateAutoMinOccurrence(SeqToBag(Falsy(pipeEntries)), 50, "medium")
            /\ pipeStage' = "threshold"
    /\ UNCHANGED <<pipeEntries, pipeOpts, pipeTokens, pipeGroups, pipeOutput, fpRounding, outsidePipe>>

\* BigScreen in manual mode: the min occurrence is the setting
ManualMinOccurrence ==
    /\ pipeStage = "start"
    /\ pipeMinOcc' \in {1, 2}
    /\ pipeStage' = "threshold"
    /\ UNCHANGED <<pipeEntries, pipeOpts, pipeTokens, pipeGroups, pipeOutput, fpRounding, outsidePipe>>

\* processWordCloudData(entries, options), from call to return or throw
ProcessWordCloudData ==
    /\ pipeStage = "threshold"
    /\ pipeOpts' = [pipeOpts EXCEPT !.minOccurrence = pipeMinOcc]
    /\ IF Len(pipeEntries) = 0
       THEN pipeStage' = "done" /\ UNCHANGED <<pipeTokens, pipeGroups, pipeOutput>>
       ELSE IF TrimThrows(pipeEntries)
       THEN pipeStage' = "rejected" /\ UNCHANGED <<pipeTokens, pipeGroups, pipeOutput>>
       ELSE \E entries \in {Falsy(pipeEntries)} :
            \E texts \in {textsToProcess(entries, pipeOpts')} :
            \E tokens \in {TokensOf(texts, jiebaInstance)} :
               IF Len(tokens) = 0
               THEN pipeStage' = "done" /\ UNCHANGED <<pipeTokens, pipeGroups, pipeOutput>>
               ELSE IF KeyThrows(pipeEntries)
               THEN /\ pipeStage' = "rejected"
                    /\ pipeTokens' = tokens
                    /\ UNCHANGED <<pipeGroups, pipeOutput>>
               ELSE \E groups \in {GroupTokens(tokens, entries, pipeOpts', fpRounding)} :
                       /\ pipeStage' = "done"
                       /\ pipeTokens' = tokens
                       /\ pipeGroups' = groups
                       /\ pipeOutput' = FilterLimitSort(groups, pipeOpts')
    /\ UNCHANGED <<pipeEntries, pipeMinOcc, fpRounding, outsidePipe>>

PipeNext == AutoMinOccurrence \/ ManualMinOccurrence \/ ProcessWordCloudData

PipeSpec == PipeInit /\ [][PipeNext]_vars

\* the entries whose text is the given one
Submissions(text) == { i \in DOMAIN pipeEntries : pipeEntries[i].text = text }

\* the call ran to its return on a list calculateAutoMinOccurrence accepts, with
\* the min occurrence calculateAutoMinOccurrence gives for the list
RanWithAutoMinOccurrence ==
    /\ pipeStage = "done"
    /\ ~KeyThrows(pipeEntries)
    /\ pipeMinOcc = calculateAutoMinOccurrence(SeqToBag(Falsy(pipeEntries)), 50, "medium")

\* C11: when one text is more than 40% of at least 10 entries, the auto min
\* occurrence is at least 2, and the output of the pipeline run with it holds
\* the group of the dominant text with tier S and no group whose totalCount is
\* below the min occurrence.
C11_DominantOnTop ==
    \A d \in DominantTexts :
        ( /\ RanWithAutoMinOccurrence
          /\ Len(pipeEntries) >= 10
          /\ 10 * Cardinality(Submissions(d)) > 4 * Len(pipeEntries) )
        => /\ pipeMinOcc >= 2
           /\ \E i \in DOMAIN pipeOutput :
                 /\ \E v \in DOMAIN pipeOutput[i].variants : pipeOutput[i].variants[v].text = d
                 /\ pipeOutput[i].tier = "S"
           /\ \A i \in DOMAIN pipeOutput : pipeOutput[i].totalCount >= pipeMinOcc

\* processWordCloudData returned groups made by groupSemantically
GroupedSemantically ==
    pipeStage = "done" /\ pipeOpts.semanticGrouping /\ pipeGroups # <<>>

\* C14 as stated: in the output of groupSemantically tokens of different
\* languages are never in the same group; the variants of a group all carry
\* one language.
C14_OneLanguagePerGroup ==
    GroupedSemantically =>
        \A i \in DOMAIN pipeGroups :
            /\ Cardinality(pipeGroups[i].languages) = 1
            /\ \A v, w \in DOMAIN pipeGroups[i].variants :
                  pipeGroups[i].variants[v].language = pipeGroups[i].variants[w].language

\* C14, amended: groupSemantically folds tokens by lowercased key phrase alone.
\* There is one group per lowercased key phrase, every token is in the group of
\* its key phrase, and the group's languages are the languages of its tokens:
\* tokens of different languages are in the same group exactly when their
\* lowercased key phrases are equal.
C14_MergedByKeyPhraseAlone ==
    GroupedSemantically =>
        /\ \A i, j \in DOMAIN pipeGroups :
              pipeGroups[i].canonical = pipeGroups[j].canonical => i = j
        /\ \A t \in DOMAIN pipeTokens : \E i \in DOMAIN pipeGroups :
              /\ pipeGroups[i].canonical = ToLowerCase(pipeTokens[t].keyPhrase)
              /\ \E v \in DOMAIN pipeGroups[i].variants :
                    pipeGroups[i].variants[v].normalized = ToLowerCase(pipeTokens[t].normalized)
        /\ \A i \in DOMAIN pipeGroups :
              pipeGroups[i].languages =
                  { pipeTokens[t].language : t \in { u \in DOMAIN pipeTokens :
                        ToLowerCase(pipeTokens[u].keyPhrase) = pipeGroups[i].canonical } }

\* an English token (nasi) and a Malay token (saya nasi) share the group nasi
C14_Witness ==
    /\ GroupedSemantically
    /\ \E i \in DOMAIN pipeGroups :
          /\ pipeGroups[i].languages = {"en", "ms"}
          /\ Len(pipeGroups[i].variants) = 2

\* C16: processWordCloudData never throws or rejects because an entry has an
\* empty, blank, missing or non-string text; it skips such entries and returns
\* the groups of the others.
C16_MalformedAbsorbed ==
    /\ pipeStage # "rejected"
    /\ pipeStage = "done" =>
          \A i \in DOMAIN pipeEntries :
              (pipeEntries[i].text \in DominantTexts /\ ~isSpam(pipeEntries[i].text)) =>
                  \E t \in DOMAIN pipeTokens : pipeTokens[t].original = pipeEntries[i].text

\* C17: the tiers of the returned groups are those assignTiers gives on the
\* groups that remain after the min-occurrence filter: each returned group has
\* the tier of its rank and cumulative share among the thresholded groups.
C17_TiersAfterThreshold ==
    (pipeStage = "done" /\ pipeGroups # <<>>) =>
        LET thresholded == IF pipeOpts.minOccurrence > 1
                           THEN filterByMinOccurrence(pipeGroups, pipeOpts.minOccurrence)
                           ELSE pipeGroups
            tiered == assignTiers(thresholded, fpRounding)
        IN  \A i \in DOMAIN pipeOutput : \E j \in DOMAIN tiered :
                /\ [tiered[j] EXCEPT !.tier = "C"] = [pipeOutput[i] EXCEPT !.tier = "C"]
                /\ tiered[j].tier = pipeOutput[i].tier

\* C28: the groups processWordCloudData returns have pairwise distinct
\* canonical values, with semantic grouping on and with it off.
C28_CanonicalUnique ==
    pipeStage = "done" =>
        \A i, j \in DOMAIN pipeOutput :
            pipeOutput[i].canonical = pipeOutput[j].canonical => i = j

(***************************************************************************)
(* Specification GroupSpec: step 4 of processWordCloudData, groupSemantically *)
(* or createIndividualGroups, applied to any list of at most MaxTokens     *)
(* tokens and to entries that hold up to MaxCopies copies of two texts.    *)
(* The tokens are those processMultilingual returns for "saya nasi",       *)
(* "nasi", "Nasi" and "cat!": the first three share the key phrase nasi,   *)
(* the second and third the normalized text nasi.                          *)
(***************************************************************************)

MaxTokens == 3
MaxCopies == 3

SayaNasi == <<115, 97, 121, 97, 32, 110, 97, 115, 105>>
Nasi == <<110, 97, 115, 105>>

GroupTexts == { SayaNasi, Nasi, <<78, 97, 115, 105>>, <<99, 97, 116, 33>> }

\* the lists of 1 to n tokens
RECURSIVE TokenLists(_)
TokenLists(n) ==
    LET tokens == { processMultilingual(text, franc(text), 0) : text \in GroupTexts }
    IN  IF n = 1 THEN { <<token>> : token \in tokens }
        ELSE TokenLists(n - 1) \cup { Append(list, token) : list \in TokenLists(n - 1),
                                                            token \in tokens }

GroupInit ==
    /\ pipeTokens \in TokenLists(MaxTokens)
    /\ \E a, b \in 0..MaxCopies :
          pipeEntries = Repeat(SubmittedEntry(SayaNasi), a) \o Repeat(SubmittedEntry(Nasi), b)
    /\ pipeOpts \in [displayMode : {"balanced"}, showPhrases : {TRUE}, minOccurrence : {2},
                     enableSpamFilter : {TRUE}, semanticGrouping : BOOLEAN]
    /\ pipeStage = "tokenized"
    /\ pipeMinOcc = 2
    /\ pipeGroups = <<>>
    /\ pipeOutput = <<>>
    /\ fpRounding \in Roundings
    /\ IdleBut("pipe")

\* Step 4
GroupTheTokens ==
    /\ pipeStage = "tokenized"
    /\ pipeGroups' = GroupTokens(pipeTokens, pipeEntries, pipeOpts, fpRounding)
    /\ pipeStage' = "grouped"
    /\ UNCHANGED <<pipeEntries, pipeOpts, pipeMinOcc, pipeTokens, pipeOutput, fpRounding, outsidePipe>>

GroupNext == GroupTheTokens

GroupSpec == GroupInit /\ [][GroupNext]_vars

\* C21: in every group from groupSemantically, with the top variant the one of
\* the highest count and, among those, of the longest text, displayText is the
\* keyPhrase when the top variant's text equals the keyPhrase case-insensitively;
\* otherwise the top variant's text when there is a second variant and the top
\* count is more than double the next count; otherwise the keyPhrase.
C21_DisplayText ==
    (pipeStage = "grouped" /\ pipeOpts.semanticGrouping) =>
        \A g \in DOMAIN pipeGroups :
            LET variants == pipeGroups[g].variants
                keyPhrase == pipeGroups[g].keyPhrase
                tops == { i \in DOMAIN variants : \A j \in DOMAIN variants :
                            \/ variants[j].count < variants[i].count
                            \/ /\ variants[j].count = variants[i].count
                               /\ Len(variants[j].text) <= Len(variants[i].text) }
                top == variants[CHOOSE i \in tops : \A j \in tops : i <= j]
                doubled == /\ Len(variants) > 1
                           /\ Cardinality({ i \in DOMAIN variants :
                                  top.count > 2 * variants[i].count }) = Len(variants) - 1
            IN  /\ variants # <<>>
                /\ pipeGroups[g].displayText =
                      IF ToLowerCase(top.text) = ToLowerCase(keyPhrase) THEN keyPhrase
                      ELSE IF doubled THEN top.text
                      ELSE keyPhrase

\* a group with two variants that shows the text of its top variant, saya nasi,
\* and not its key phrase
C21_Witness ==
    /\ pipeStage = "grouped" /\ pipeOpts.semanticGrouping
    /\ \E g \in DOMAIN pipeGroups :
          /\ Len(pipeGroups[g].variants) = 2
          /\ pipeGroups[g].displayText = SayaNasi
          /\ pipeGroups[g].keyPhrase = Nasi

\* C22: in every group from groupSemantically or createIndividualGroups no two
\* variants have the same normalized text and totalCount is the sum of the
\* counts of the variants, whatever tokens were folded in.
C22_CountsConsistent ==
    pipeStage = "grouped" =>
        \A g \in DOMAIN pipeGroups :
            LET variants == pipeGroups[g].variants
                sum[i \in 0..Len(variants)] ==
                    IF i = 0 THEN 0 ELSE sum[i - 1] + variants[i].count
            IN  /\ \A i, j \in DOMAIN variants :
                      variants[i].normalized = variants[j].normalized => i = j
                /\ pipeGroups[g].totalCount = sum[Len(variants)]

\* three tokens folded into one group of two variants: the token Nasi has
\* added its count to the variant nasi
C22_Witness ==
    /\ pipeStage = "grouped" /\ pipeOpts.semanticGrouping
    /\ Len(pipeTokens) = 3
    /\ \E t, u \in DOMAIN pipeTokens :
          /\ pipeTokens[t].original # pipeTokens[u].original
          /\ pipeTokens[t].normalized = pipeTokens[u].normalized
    /\ \E g \in DOMAIN pipeGroups :
          /\ Len(pipeGroups[g].variants) = 2
          /\ \E v \in DOMAIN pipeGroups[g].variants :
                pipeGroups[g].variants[v].count > CountOrOne(buildCountMap(pipeEntries),
                                                             pipeGroups[g].variants[v].normalized)

(***************************************************************************)
(* Specification StatsSpec: getProcessingStats applied to a list of at most *)
(* MaxStatsEntries entries, as handleSubmitWord stores them, and to an     *)
(* options argument that gives or omits enableSpamFilter and               *)
(* semanticGrouping ("omitted", "true" or "false").                        *)
(***************************************************************************)

MaxStatsEntries == 3

\* cat, aaaaa, qwerty
StatsTexts == { <<99, 97, 116>>, <<97, 97, 97, 97, 97>>, <<113, 119, 101, 114, 116, 121>> }

RECURSIVE EntryLists(_)
EntryLists(n) ==
    IF n = 0 THEN { <<>> }
    ELSE EntryLists(n - 1) \cup { Append(list, SubmittedEntry(text)) :
                                    list \in EntryLists(n - 1), text \in StatsTexts }

\* { ...DEFAULT_OPTIONS, ...options }
MergedOptions(options) ==
    [DEFAULT_OPTIONS EXCEPT
        !.enableSpamFilter = IF options.enableSpamFilter = "omitted" THEN @
                             ELSE options.enableSpamFilter = "true",
        !.semanticGrouping = IF options.semanticGrouping = "omitted" THEN @
                             ELSE options.semanticGrouping = "true"]

\* new Set(entries.map((e) => e.text.trim()))
TrimmedTexts(entries) == { Trim(entries[i].text) : i \in DOMAIN entries }

\* options.enableSpamFilter ? ... .filter((t) => isSpam(t)).length : 0
spamFiltered(entries, options) ==
    IF options.enableSpamFilter = "true"
    THEN Cardinality({ t \in TrimmedTexts(entries) : isSpam(t) })
    ELSE 0

StatsInit ==
    /\ statsEntries \in EntryLists(MaxStatsEntries)
    /\ statsOptions \in [enableSpamFilter : {"omitted", "true", "false"},
                         semanticGrouping : {"omitted", "true", "false"}]
    /\ statsReport = [stage |-> "none"]
    /\ IdleBut("stats")

GetProcessingStats ==
    /\ statsReport.stage = "none"
    /\ \E opts \in {MergedOptions(statsOptions)} :
       \E tokens \in {TokensOf(textsToProcess(statsEntries, opts), jiebaInstance)} :
       \E groups \in {IF Len(tokens) = 0 THEN <<>>
                      ELSE FilterLimitSort(GroupTokens(tokens, statsEntries, opts, fpRounding),
                                           opts)} :
          statsReport' = [stage |-> "returned",
                          totalEntries |-> Len(statsEntries),
                          uniqueTexts |-> Cardinality(TrimmedTexts(statsEntries)),
                          spamFiltered |-> spamFiltered(statsEntries, statsOptions),
                          groupsCreated |-> Len(groups),
                          displayedGroups |-> Len(groups)]
    /\ UNCHANGED <<statsEntries, statsOptions, outsideStats>>

StatsNext == GetProcessingStats

StatsSpec == StatsInit /\ [][StatsNext]_vars

\* C29: getProcessingStats reports as spamFiltered the number of distinct
\* trimmed texts the spam filter removed in its pipeline run, for every options
\* value, also when enableSpamFilter is omitted and the run applies the default.
C29_StatsAgree ==
    statsReport.stage = "returned" =>
        statsReport.spamFiltered =
            Len(uniqueTexts(statsEntries))
              - Len(textsToProcess(statsEntries, MergedOptions(statsOptions)))

(***************************************************************************)
(* Specification NlpSpec: processMultilingual applied to a text of at most *)
(* MaxWords words, for every answer franc can give for it.  The texts hold *)
(* no Chinese, so no call waits for jiebaInit.                             *)
(***************************************************************************)

MaxWords == 3

\* nasi, lemak, sedap, saya, chicken, Fried, like
NlpWords ==
    { <<110, 97, 115, 105>>, <<108, 101, 109, 97, 107>>, <<115, 101, 100, 97, 112>>,
      <<115, 97, 121, 97>>, <<99, 104, 105, 99, 107, 101, 110>>,
      <<70, 114, 105, 101, 100>>, <<108, 105, 107, 101>> }

\* the texts of 1 to n words with one space between them
RECURSIVE WordTexts(_)
WordTexts(n) ==
    IF n = 1 THEN NlpWords
    ELSE WordTexts(n - 1) \cup { t \o <<32>> \o w : t \in WordTexts(n - 1), w \in NlpWords }

NlpInit ==
    /\ nlpText \in WordTexts(MaxWords)
    /\ nlpDetected \in FrancAnswers(nlpText)
    /\ nlpToken = [stage |-> "none"]
    /\ IdleBut("nlp")

ProcessMultilingual ==
    /\ nlpToken.stage = "none"
    /\ nlpToken' = [stage |-> "returned",
                    token |-> processMultilingual(nlpText, nlpDetected, jiebaInstance)]
    /\ UNCHANGED <<nlpText, nlpDetected, outsideNlp>>

NlpNext == ProcessMultilingual

NlpSpec == NlpInit /\ [][NlpNext]_vars

\* nasi lemak
NasiLemak == <<110, 97, 115, 105, 32, 108, 101, 109, 97, 107>>

\* C13: for a Malay input that holds a known compound noun (nasi lemak) together
\* with other words, processMalay returns the compound alone as keyPhrase.
C13_CompoundAlone ==
    ( /\ nlpToken.stage = "returned"
      /\ nlpToken.token.language = "ms"
      /\ Includes(ToLowerCase(nlpText), NasiLemak)
      /\ ToLowerCase(nlpText) # NasiLemak )
    => nlpToken.token.keyPhrase = NasiLemak

(***************************************************************************)
(* Specification ScriptSpec: detectLanguage and processMultilingual applied *)
(* to a text of at most MaxScriptPieces pieces, among them Han characters, *)
(* a hiragana character, Latin words and a space, for every answer of      *)
(* franc (or its throwing) and for both outcomes of jiebaInit.             *)
(***************************************************************************)

MaxScriptPieces == 3

\* the dictionary word, a Han character, "ok", a space, a hiragana character
\* and "Delicious!"
ScriptPieces ==
    { <<40481, 32905>>, <<21507>>, <<111, 107>>, <<32>>, <<12398>>,
      <<68, 101, 108, 105, 99, 105, 111, 117, 115, 33>> }

RECURSIVE ScriptTexts(_)
ScriptTexts(n) ==
    IF n = 0 THEN { <<>> }
    ELSE ScriptTexts(n - 1) \cup { t \o piece : t \in ScriptTexts(n - 1), piece \in ScriptPieces }

ScriptInit ==
    /\ nlpText \in ScriptTexts(MaxScriptPieces)
    /\ nlpDetected \in FrancAnswers(Trim(nlpText)) \cup {"threw"}
    /\ nlpToken = [stage |-> "none"]
    /\ IdleBut("nlp")

\* detectLanguage(text)
DetectLanguage ==
    /\ nlpToken.stage = "none"
    /\ nlpToken' = [stage |-> "detected", language |-> detectLanguage(nlpText, nlpDetected)]
    /\ UNCHANGED <<nlpText, nlpDetected, jiebaInstance, jiebaInitialized, jiebaInitCalls,
                   outsideScript>>

\* processMultilingual(text) for a text that is blank, English or Malay
ProcessWithoutJieba ==
    /\ nlpToken.stage = "detected"
    /\ ~AwaitsInitJieba(nlpText, nlpDetected)
    /\ nlpToken' = [nlpToken EXCEPT !.stage = "returned"]
                      @@ [token |-> processMultilingual(nlpText, nlpDetected, jiebaInstance)]
    /\ UNCHANGED <<nlpText, nlpDetected, jiebaInstance, jiebaInitialized, jiebaInitCalls,
                   outsideScript>>

\* processMultilingual(text) for a Chinese or mixed text: initJieba calls
\* jiebaInit(), which resolves or rejects, and the text is processed
ProcessAfterInitJieba ==
    /\ nlpToken.stage = "detected"
    /\ AwaitsInitJieba(nlpText, nlpDetected)
    /\ ~jiebaInitialized
    /\ jiebaInitCalls' = jiebaInitCalls + 1
    /\ \/ jiebaInstance' = jiebaInitCalls' /\ jiebaInitialized' = TRUE
       \/ jiebaInstance' = jiebaInstance /\ jiebaInitialized' = FALSE
    /\ nlpToken' = [nlpToken EXCEPT !.stage = "returned"]
                      @@ [token |-> processMultilingual(nlpText, nlpDetected, jiebaInstance')]
    /\ UNCHANGED <<nlpText, nlpDetected, outsideScript>>

ScriptNext == DetectLanguage \/ ProcessWithoutJieba \/ ProcessAfterInitJieba

ScriptSpec == ScriptInit /\ [][ScriptNext]_vars

\* C24: detectLanguage returns en for an empty or blank text and, for every
\* other text, mixed exactly when the text holds a CJK character and a Latin
\* letter, whatever franc answers and also when franc throws.
C24_ScriptOverrides ==
    nlpToken.stage \in {"detected", "returned"} =>
        IF Len(Trim(nlpText)) = 0 THEN nlpToken.language = "en"
        ELSE nlpToken.language = "mixed"
                <=> /\ \E i \in DOMAIN nlpText : IsCJKChar(nlpText[i])
                    /\ \E i \in DOMAIN nlpText : IsLatinLetter(nlpText[i])

\* C25: for every mixed text processMultilingual returns what processEnglish
\* gives, relabelled mixed: the normalized text of processChinese is never
\* longer than that of processEnglish.
C25_MixedIsEnglish ==
    (nlpToken.stage = "returned" /\ nlpToken.token.language = "mixed") =>
        LET text == Trim(nlpText)
        IN  /\ nlpToken.token = [processEnglish(text) EXCEPT !.language = "mixed"]
            /\ Len(processChinese(text, jiebaInstance).normalized)
                  <= Len(processEnglish(text).normalized)

\* a mixed text that jieba has segmented, with a blank segment dropped: the
\* Chinese normalized text differs from the text and is the shorter one
C25_Witness ==
    /\ nlpToken.stage = "returned" /\ nlpToken.token.language = "mixed"
    /\ jiebaInstance # 0
    /\ processChinese(Trim(nlpText), jiebaInstance).normalized # Trim(nlpText)
    /\ Len(processChinese(Trim(nlpText), jiebaInstance).normalized)
          < Len(processEnglish(Trim(nlpText)).normalized)


(***************************************************************************)
(* Specification EntriesSpec: the entries list of JoinSession.  The page   *)
(* loads the session's entries and, from its mounting on, fetches every    *)
(* second: each fifth fetch all the entries, the others the entries newer  *)
(* than lastTimestampRef.  The participant submits and deletes words, and  *)
(* other participants insert and the presenter deletes rows meanwhile.     *)
(* Each request is answered later, in any order; jsPending holds the       *)
(* answers on their way.  A row is [id, created_at].                       *)
(***************************************************************************)

MaxRows == 3
MaxPolls == 5
MaxPending == 2

FullRefreshEvery == 5

\* handleSubmitWord as it would be without the check of prev.some(...)
OptimisticInsertUnguarded(prev, inserted) == Append(prev, inserted)

\* the updater of handleSubmitWord
OptimisticInsert(prev, inserted) ==
    IF \E k \in DOMAIN prev : prev[k].id = inserted.id THEN prev ELSE Append(prev, inserted)

\* the updater of the incremental fetch
MergeFresh(prev, data) ==
    LET existingIds == { prev[k].id : k \in DOMAIN prev }
    IN  prev \o SelectSeq(data, LAMBDA r : r.id \notin existingIds)

\* the updater of the full refresh
SmartDiff(prev, data) ==
    IF { prev[k].id : k \in DOMAIN prev } = { data[k].id : k \in DOMAIN data } THEN prev ELSE data

EntriesInit == JsIdle /\ IdleBut("js")

\* the request is sent if there is room for its answer
Sent(answer) ==
    /\ Cardinality(jsPending) < MaxPending
    /\ answer \notin jsPending
    /\ jsPending' = jsPending \cup {answer}

NewRow == [id |-> jsIssued + 1, created_at |-> dbClock]

\* another participant's insert
OtherInsert ==
    /\ jsIssued < MaxRows
    /\ jsIssued' = jsIssued + 1
    /\ dbRows' = dbRows \cup {NewRow}
    /\ UNCHANGED <<dbClock, jsEntries, jsLastTimestamp, jsLoad, jsPollCount, jsPending, outsideJs>>

\* the presenter deletes a row
OtherDelete ==
    /\ \E row \in dbRows : dbRows' = dbRows \ {row}
    /\ UNCHANGED <<dbClock, jsVars, outsideJs>>

\* loadSession: the query for the existing entries
LoadEntries ==
    /\ jsLoad = "todo"
    /\ jsLoad' = "sent"
    /\ Sent([kind |-> "load", rows |-> OrderedByCreatedAt(dbRows)])
    /\ UNCHANGED <<dbClock, dbRows, jsEntries, jsLastTimestamp, jsPollCount, jsIssued, outsideJs>>

\* loadSession: setEntries(initial), and the cursor if there are any
EntriesLoaded ==
    /\ \E answer \in jsPending :
          /\ answer.kind = "load"
          /\ jsPending' = jsPending \ {answer}
          /\ jsEntries' = answer.rows
          /\ jsLastTimestamp' = IF Len(answer.rows) > 0 THEN Last(answer.rows).created_at
                                ELSE jsLastTimestamp
    /\ UNCHANGED <<dbClock, dbRows, jsLoad, jsPollCount, jsIssued, outsideJs>>

\* fetchNewEntries, from the timer or a visibility, focus or online event:
\* the query, all the rows on each fifth call and else the rows after the cursor
FetchNewEntries ==
    /\ jsPollCount < MaxPolls
    /\ jsPollCount' = jsPollCount + 1
    /\ IF jsPollCount' % FullRefreshEvery = 0
       THEN Sent([kind |-> "full", rows |-> OrderedByCreatedAt(dbRows)])
       ELSE Sent([kind |-> "incremental",
                  rows |-> OrderedByCreatedAt({ r \in dbRows :
                              jsLastTimestamp = 0 \/ r.created_at > jsLastTimestamp })])
    /\ UNCHANGED <<dbClock, dbRows, jsEntries, jsLastTimestamp, jsLoad, jsIssued, outsideJs>>

\* fetchNewEntries: the rows of a full refresh arrive
FullRefreshArrives ==
    /\ \E answer \in jsPending :
          /\ answer.kind = "full"
          /\ jsPending' = jsPending \ {answer}
          /\ jsEntries' = SmartDiff(jsEntries, answer.rows)
          /\ jsLastTimestamp' = IF jsEntries' # jsEntries /\ Len(answer.rows) > 0
                                THEN Last(answer.rows).created_at ELSE jsLastTimestamp
    /\ UNCHANGED <<dbClock, dbRows, jsLoad, jsPollCount, jsIssued, outsideJs>>

\* fetchNewEntries: the rows of an incremental fetch arrive
IncrementalArrives ==
    /\ \E answer \in jsPending :
          /\ answer.kind = "incremental"
          /\ jsPending' = jsPending \ {answer}
          /\ jsEntries' = IF Len(answer.rows) = 0 THEN jsEntries
                          ELSE MergeFresh(jsEntries, answer.rows)
          /\ jsLastTimestamp' = IF jsEntries' # jsEntries THEN Last(jsEntries').created_at
                                ELSE jsLastTimestamp
    /\ UNCHANGED <<dbClock, dbRows, jsLoad, jsPollCount, jsIssued, outsideJs>>

\* handleSubmitWord: insert(...).select().single()
HandleSubmitWord ==
    /\ jsIssued < MaxRows
    /\ jsIssued' = jsIssued + 1
    /\ dbRows' = dbRows \cup {NewRow}
    /\ Sent([kind |-> "inserted", rows |-> <<NewRow>>])
    /\ UNCHANGED <<dbClock, jsEntries, jsLastTimestamp, jsLoad, jsPollCount, outsideJs>>

\* handleSubmitWord: the inserted row is back
InsertedArrives ==
    /\ \E answer \in jsPending :
          /\ answer.kind = "inserted"
          /\ jsPending' = jsPending \ {answer}
          /\ jsEntries' = OptimisticInsert(jsEntries, answer.rows[1])
          /\ jsLastTimestamp' = answer.rows[1].created_at
    /\ UNCHANGED <<dbClock, dbRows, jsLoad, jsPollCount, jsIssued, outsideJs>>

\* handleDeleteWord(entryId) for an entry of the list
HandleDeleteWord ==
    /\ \E k \in DOMAIN jsEntries :
          /\ dbRows' = { r \in dbRows : r.id # jsEntries[k].id }
          /\ Sent([kind |-> "deleted", rows |-> <<jsEntries[k]>>])
    /\ UNCHANGED <<dbClock, jsEntries, jsLastTimestamp, jsLoad, jsPollCount, jsIssued, outsideJs>>

\* handleDeleteWord: the delete is done
DeletedArrives ==
    /\ \E answer \in jsPending :
          /\ answer.kind = "deleted"
          /\ jsPending' = jsPending \ {answer}
          /\ jsEntries' = SelectSeq(jsEntries, LAMBDA e : e.id # answer.rows[1].id)
    /\ UNCHANGED <<dbClock, dbRows, jsLastTimestamp, jsLoad, jsPollCount, jsIssued, outsideJs>>

EntriesNext ==
    \/ Tick
    \/ OtherInsert
    \/ OtherDelete
    \/ LoadEntries
    \/ EntriesLoaded
    \/ FetchNewEntries
    \/ FullRefreshArrives
    \/ IncrementalArrives
    \/ HandleSubmitWord
    \/ InsertedArrives
    \/ HandleDeleteWord
    \/ DeletedArrives

EntriesSpec == EntriesInit /\ [][EntriesNext]_vars

\* C30: however the load, the incremental fetches, the full refreshes, the
\* optimistic insert and the deletes interleave, no two entries of the
\* JoinSession entries list have the same id.
C30_NoDuplicateEntries ==
    \A i, j \in DOMAIN jsEntries : jsEntries[i].id = jsEntries[j].id => i = j

\* the row the participant inserted is on its way back while a fetch has
\* already put it in the list, next to another entry
C30_Witness ==
    /\ Len(jsEntries) > 1
    /\ \E answer \in jsPending :
          /\ answer.kind = "inserted"
          /\ \E k \in DOMAIN jsEntries : jsEntries[k].id = answer.rows[1].id


=============================================================================
